---- MODULE Spec2Model ----
(***************************************************************************)
(* A model of the image-pull engine of the distribution package            *)
(* (pull_v2.go): the puller (pull, pullRepository, pullTag), the schema    *)
(* pullers (pullSchema1, pullSchema2, pullOCI, pullManifestList), the      *)
(* concurrent config fetch and layer download of pullSchema2Layers, and    *)
(* the resumable blob download of layerDescriptor.Download.                *)
(*                                                                         *)
(* Spec          the puller: one pull call against an arbitrary registry   *)
(* SpecDownload  one layer descriptor driven through Download attempts     *)
(***************************************************************************)
EXTENDS Integers, Sequences, FiniteSets, TLC

\* ------------------------------------------------------------------ bounds
\* longest diff-ID sequence of an image config or of a downloaded rootfs
MaxLayers == 1
\* most ranked candidates filterManifests returns for one manifest list
MaxMatches == 2
\* deepest nesting of manifest lists (1: a list of images)
MaxDepth == 2
\* length of the layer blob
BlobLen == 2
\* most Download calls on one layer descriptor
MaxAttempts == 3
\* most layers of a schema1 manifest
MaxS1Layers == 3
\* most messages a log reader produces
MaxLogMsgs == 2
\* most calls of Prepare and Remove a task controller makes
MaxCtlCalls == 2
\* most changes of the plugin while a controller waits
MaxPluginEvents == 3
\* most connections the SCTP proxy accepts
MaxClients == 2
\* the buffer Wait asks for when it subscribes to plugin events
waitEventBuffer == 1

\* ---------------------------------------------------------------- universes
Tags == {"t1", "t2"}
Digests == {"d1", "d2"}
ConfigDigests == {"c1", "c2"}
DiffIDs == {"x", "y"}
\* image IDs: the digest of a config blob, or of a config synthesized from
\* a schema1 manifest
ImageIDs == ConfigDigests \cup {"s1"}

\* the references a pull is asked for: name only, name:tag, name@digest
Refs ==
  { [kind |-> "name", tag |-> "", dgst |-> ""],
    [kind |-> "tag", tag |-> "t1", dgst |-> ""],
    [kind |-> "digest", tag |-> "", dgst |-> "d1"] }

\* the tag lists the tag service may answer All with
TagLists == { <<>>, <<"t1", "t2">> }

SeqsUpTo(S, n) == UNION { [1..k -> S] : k \in 0..n }

\* rootfs values: nil (no rootfs in the config) or a diff-ID sequence
RootFSValues == SeqsUpTo(DiffIDs, MaxLayers)

\* config media types: an image config, a plugin config
MediaTypes == {"image", "plugin"}
\* the built-in allow-list used when Schema2Types is empty
defaultImageTypes == {"image"}

NoManifest == [kind |-> "none", dgst |-> "", target |-> ""]

\* what the manifest service may decode: the manifest's type, the digest of
\* its canonical bytes and, for schema2 and OCI, the target (config) digest.
\* The config media type and the number of layer descriptors are read once
\* each, and are drawn where the code reads them.
ManifestKinds == {"schema1", "schema2", "oci", "list", "unknown"}

Manifests ==
  [kind : {"schema2", "oci"}, dgst : Digests, target : {"c1"}]
  \cup [kind : {"schema1", "list", "unknown"}, dgst : Digests, target : {""}]

NoConfig == [dgst |-> "", nilRootFS |-> TRUE, diffIDs |-> <<>>, bad |-> FALSE]

\* what rootFSFromConfig and platformFromConfig may make of a config blob:
\* a rootfs with its diff IDs, no rootfs, or an unmarshalling error
ParsedConfigs ==
  [nilRootFS : {FALSE}, diffIDs : RootFSValues, bad : {FALSE}]
  \cup [nilRootFS : {TRUE}, diffIDs : {<<>>}, bad : BOOLEAN]

VARIABLES
  goos,            \* runtime.GOOS
  config,          \* ImagePullConfig: RequireSchema2, Schema2Types, DownloadManager, ReferenceStore
  ref,             \* the reference pull was called with
  imageStore,      \* ImageStore: the image IDs committed
  refStore,        \* ReferenceStore: tag or digest -> image ID ("" absent)
  imageStore0,     \* the stores as they were when pull was called
  refStore0,
  refStoreT,       \* the reference store as it was when pullTag was called
  imageStoreT,     \* the image store as it was when pullTag was called
  pc,              \* position of the pulling goroutine
  tags,            \* pullRepository: tags still to pull
  curRef,          \* pullTag's ref
  layersDownloaded,
  tagUpdated,      \* what pullTag returned
  status,          \* status lines written by writeStatus
  stack,           \* pullManifestList activations, innermost last
  manifest,        \* the manifest being pulled, until its digest has been computed
  target,          \* pullSchema2Layers: the config digest it was called with
  mref,            \* the reference the manifest is pulled under
  verified,        \* the manifest's digest was checked against mref's digest
  mismatch,        \* some manifest of this pullTag failed its digest check
  manifestDigest,
  retId,           \* what the innermost returned call returned
  retErr,
  retKind,         \* what returned it: an image puller or pullManifestList
  pullErr,         \* what pull returned
  cfgG,            \* the config goroutine of pullSchema2Layers
  dlG,             \* the download goroutine of pullSchema2Layers
  configChan,
  configErrChan,
  layerErrChan,
  downloadsDone,
  ctxCancelled,
  configJSON,
  s2err,           \* pullSchema2Layers: the error it is about to return
  downloadedRootFS,
  release,         \* "nil", or "set" once Download has returned it
  releaseCalls,    \* calls of release by the schema puller last called
  dlReturned,      \* Download calls that returned a rootfs to it
  putCalls,        \* ImageStore.Put calls that succeeded in it
  refOps,          \* pullTag: the reference store's mutators it has called, in order
  tagList,         \* pullRepository: the tags the tag service returned
  pulled,          \* pullRepository: the references pullTag has been called with, in order
  dlCalls,         \* DownloadManager.Download calls of the image puller last entered
  getFound,        \* pullSchema2Layers: ImageStore.Get found the target
  events,          \* pullTag: the calls it made before calling a schema puller, in order
  validated,       \* validateMediaType accepted the config media type of the manifest pulled
  pulling,         \* the type of the manifest the image puller at work was called for
  pullFallback,    \* the error pull returned is a fallbackError
  tmpFile,         \* layerDescriptor.tmpFile: nil, or the file and its bytes
  verifier,        \* layerDescriptor.verifier: nil, or what has been written to it
  attempts,        \* Download calls made on the layer descriptor
  offset,          \* the last Download: its offset when the transfer ended
  dlResult,        \* the last Download: "ok", "retry" or "DoNotRetry"; "none" before any
  dlCause,         \* the last Download: what it failed at
  truncFailed,     \* the last Download: truncateDownloadFile returned an error
  handed,          \* bytes of the file the last successful Download handed over
  everCorrupted,   \* the registry has served bytes that are not the blob's
  closed,          \* Close has been called
  verifierAtStart, \* the last Download: "none" if it started no transfer, else whether the
                   \* verifier held the temp file's bytes when the transfer started
  osFiles          \* the temp files the descriptor has created, in order of creation

VARIABLES
  s1pc,            \* pullSchema1: "fix" before fixManifestLayers, "build" before the loop
                   \* over the layers, "done" once the descriptors are built or an error returned
  s1Valid,         \* every V1Compatibility unmarshals and every image ID is valid
  s1Manifest,      \* the manifest verifySchema1Manifest returned
  verifiedManifest,\* the same, as fixManifestLayers left it
  throwAway,       \* the throwaway flag of each layer of verifiedManifest
  s1Err,           \* the error pullSchema1 returns ("" none)
  descriptors,     \* the download descriptors, by the blob sum each is for
  history          \* the image history, by the layer each entry is made from

fixVars == <<s1pc, s1Valid, s1Manifest, verifiedManifest, throwAway, s1Err, descriptors, history>>
VARIABLES
  rpc,             \* pullSchema2Config: "call" before a call of blobs.Get, "sleep" in the
                   \* select on the timer, "verify" after retry returned nil, "done"
  cfgDgst,         \* the digest asked for
  attempt,         \* retry's attempt
  sleep,           \* retry's sleep, in milliseconds
  retryCtxDone,    \* the context is cancelled
  fetches,         \* what retryOnError returned for each call of blobs.Get so far
  slept,           \* the timers retry has waited out, in milliseconds
  woken,           \* the case that has become ready at retry's select: "none", "ctx", "timer"
  fetchedJSON,      \* the digest of the bytes blobs.Get returned ("" none)
  retryErr,        \* the error pullSchema2Config returns ("" none)
  attemptsReported,\* the attempts named by "download failed after attempts=%d" (0 none)
  cfgRet           \* the digest of the config pullSchema2Config returns ("" nil)

retryVars == <<rpc, cfgDgst, attempt, sleep, retryCtxDone, fetches, slept, woken, fetchedJSON,
               retryErr, attemptsReported, cfgRet>>
VARIABLES
  lpc,             \* ContainerLogs: "call" before the call, "returned" after a nil error,
                   \* "failed" after an error
  logsErrRet,      \* the error ContainerLogs returned ("" nil)
  cLogCreated,     \* getLogger created the logger
  follow,          \* the Follow handed to ReadLogs
  loggerCloses,    \* the calls of cLog.Close so far
  consumerGone,    \* the calls of logs.ConsumerGone so far
  gpc,             \* the goroutine: "none" not started, "select" at the outer select,
                   \* "send" / "sendErr" at the select around a send, "exited"
  held,            \* the message the goroutine is sending
  messageChan,     \* the messages buffered in messageChan
  chanClosed,      \* messageChan is closed
  logSrc,          \* the log reader: "running", "ended" (logs.Msg closed), "errored"
  logsMsg,         \* the message the log reader offers on logs.Msg
  logsErr,         \* the error the log reader offers on logs.Err
  produced,        \* the messages the log reader has produced
  logCtxDone,      \* the context is cancelled
  received         \* what the caller has received from the channel

logsVars == <<lpc, logsErrRet, cLogCreated, follow, loggerCloses, consumerGone, gpc, held,
              messageChan, chanClosed, logSrc, logsMsg, logsErr, produced, logCtxDone, received>>
VARIABLES
  plState,         \* the plugin in the backend: "absent", "present", "removed"
  plService,       \* its SwarmServiceID
  plEnabled,       \* it is enabled
  plRefCount,      \* its reference count
  cpc,             \* each controller: "idle", in Prepare ("pUpgrade", "pPull", "pGet"),
                   \* in Remove ("rCheck")
  pluginID,        \* each controller: p.pluginID is set
  ctlCalls,        \* each controller: the calls of Prepare and Remove made on it
  prepared,        \* each controller: a Prepare returned nil and Remove was not called since
  acquires,        \* each controller: the calls of Acquire its Prepare made
  releases,        \* each controller: the calls of Release its Remove made
  backendRemoves   \* the calls of the backend's Remove

ctlVars == <<plState, plService, plEnabled, plRefCount, cpc, pluginID, ctlCalls, prepared,
             acquires, releases, backendRemoves>>
VARIABLES
  wpc,             \* Wait: "off", "get", "subscribe", "compare", "select", "done"
  wResult,         \* what Wait returned
  specDisabled,    \* p.spec.Disabled
  wEnabled,        \* the plugin is enabled
  wRemoved,        \* the plugin was removed
  subscribed,      \* Wait has subscribed and not yet cancelled
  wEvents,         \* the events buffered for Wait
  wCtxDone,        \* Wait's context is cancelled
  wChanges,        \* the changes of the plugin so far
  lastEvent        \* the event Wait received last

waitVars == <<wpc, wResult, specDisabled, wEnabled, wRemoved, subscribed, wEvents, wCtxDone,
              wChanges, lastEvent>>
VARIABLES
  upc,               \* upgradePlugin: "off", "setup", "unmount", "backup", "rename", "save",
                     \* "deferred", "done"
  origDir,           \* what the plugin's rootfs directory holds: "old", "new", "none"
  backupDir,         \* what the "-old" directory holds: "old", "none"
  tmpDir,            \* what tmpRootFSDir holds: "new", "none"
  pluginConfig,      \* p.Config, the digest of the config
  pluginBlobsums,    \* p.Blobsums
  pluginManifest,    \* p.Manifest
  pluginObjConfig,   \* p.PluginObj.Config
  savedObjConfig,    \* the PluginObj.Config last saved
  inConfigDigest,    \* the parameters configDigest, blobsums, manifestDigest
  inBlobsums,
  inManifestDigest,
  upRetErr           \* retErr: "" for nil

upgVars == <<upc, origDir, backupDir, tmpDir, pluginConfig, pluginBlobsums, pluginManifest,
             pluginObjConfig, savedObjConfig, inConfigDigest, inBlobsums, inManifestDigest,
             upRetErr>>
VARIABLES
  runPc,           \* Run: "off", "accept", "exited"
  listenerClosed,  \* the listener is closed
  quitClosed,      \* the quit channel is closed
  accepted,        \* the connections accepted so far
  clPc,            \* each clientLoop: "none", "dial", "select", "close", "finish", "returned"
  clientConn,      \* each client connection: "none", "open", "closed"
  backendConn,     \* each backend connection: "none", "open", "closed"
  broker,          \* each of the two copy goroutines: "none", "copy", "close", "done"
  wg,              \* each clientLoop's WaitGroup counter
  finish,          \* each clientLoop's finish channel is closed
  waiter,          \* each goroutine waiting for the WaitGroup: "none", "wait", "done"
  tookQuit         \* each clientLoop: its select took the quit case

sctpVars == <<runPc, listenerClosed, quitClosed, accepted, clPc, clientConn, backendConn,
              broker, wg, finish, waiter, tookQuit>>
auxVars == <<fixVars, retryVars, logsVars, ctlVars, waitVars, upgVars, sctpVars>>

storeVars == <<imageStore, refStore, imageStore0, refStore0, refStoreT, imageStoreT>>
flowVars == <<pc, tags, curRef, layersDownloaded, tagUpdated, status, stack, manifest,
              target, mref, verified, mismatch, manifestDigest, retId, retErr, retKind,
              pullErr>>
s2Vars == <<cfgG, dlG, configChan, configErrChan, layerErrChan, downloadsDone,
            ctxCancelled, configJSON, s2err, downloadedRootFS, release>>
countVars == <<releaseCalls, dlReturned, putCalls>>
histVars == <<refOps, tagList, pulled, dlCalls, getFound>>
obsVars == <<events, validated, pulling, pullFallback>>
pullVars == <<goos, config, ref, storeVars, flowVars, s2Vars, countVars, histVars, obsVars>>
layerVars == <<tmpFile, verifier, attempts, offset, dlResult, dlCause, truncFailed, handed,
               everCorrupted, closed, verifierAtStart, osFiles>>

\* ------------------------------------------------------------ pure helpers
NoRefs == [k \in Tags \cup Digests |-> ""]

DefaultConfig ==
  [requireSchema2 |-> FALSE, schema2Types |-> {}, hasDM |-> TRUE, hasRefStore |-> TRUE]

\* the configurations a pull is run under: the default one, and each with
\* one setting changed
Configs ==
  { DefaultConfig,
    [DefaultConfig EXCEPT !.requireSchema2 = TRUE],
    [DefaultConfig EXCEPT !.schema2Types = {"plugin"}],
    [DefaultConfig EXCEPT !.hasDM = FALSE],
    [DefaultConfig EXCEPT !.hasRefStore = FALSE] }

\* the stores a pull may start from: empty, or holding image c1, tagged t1
\* or not, or holding an older image s1 tagged t1
InitStores ==
  { [images |-> {}, refs |-> NoRefs],
    [images |-> {"c1"}, refs |-> NoRefs],
    [images |-> {"c1"}, refs |-> [NoRefs EXCEPT !["t1"] = "c1"]],
    [images |-> {"s1"}, refs |-> [NoRefs EXCEPT !["t1"] = "s1"]] }


\* the pulls checked: each operating system, reference and initial store
\* under the default configuration, and each other configuration on Linux
\* from an empty store
Scenarios ==
  [goos : {"linux", "windows"}, config : {DefaultConfig}, ref : Refs,
   store : InitStores]
  \cup [goos : {"linux"}, config : Configs, ref : Refs, store : {[images |-> {}, refs |-> NoRefs]}]

IsCanonical(r) == r.kind = "digest"
IsTagged(r) == r.kind = "tag"

\* the reference store's key of a reference
RefKey(r) == IF IsCanonical(r) THEN r.dgst ELSE r.tag

WithDigest(d) == [kind |-> "digest", tag |-> "", dgst |-> d]
WithTag(t) == [kind |-> "tag", tag |-> t, dgst |-> ""]

\* a validateMediaType that ignores Schema2Types
validateMediaTypeDefaultOnly(cfg, mediaType) ==
  IF mediaType \in defaultImageTypes THEN "" ELSE "invalidManifestClassError"

validateMediaType(cfg, mediaType) ==
  LET allowedMediaTypes ==
        IF cfg.schema2Types # {} THEN cfg.schema2Types ELSE defaultImageTypes
  IN IF mediaType \in allowedMediaTypes THEN "" ELSE "invalidManifestClassError"

\* the digest of the canonical bytes, checked against the requested digest
\* when pulling by digest; payloadErr is the error of mfst.Payload ("" none)
schema2ManifestDigest(r, m, payloadErr) ==
  IF payloadErr # "" THEN [err |-> payloadErr, dgst |-> ""]
  ELSE IF IsCanonical(r)
    THEN IF m.dgst = r.dgst
           THEN [err |-> "", dgst |-> r.dgst]
           ELSE [err |-> "manifest verification failed", dgst |-> ""]
    ELSE [err |-> "", dgst |-> m.dgst]

\* the digest check of verifySchema1Manifest; wellFormed stands for schema
\* version 1, as many history entries as layers, and at least one layer
verifySchema1Manifest(r, m, wellFormed) ==
  IF IsCanonical(r) /\ m.dgst # r.dgst THEN "image verification failed"
  ELSE IF ~wellFormed THEN "malformed schema1 manifest"
  ELSE ""

\* rootFSFromConfig and platformFromConfig of receiveConfig
receiveConfigErr(c) == IF c.bad THEN "config unmarshal error" ELSE ""

\* a cross-check that compares the lengths alone
rootFSMatchesLengthOnly(downloaded, configRootFS) ==
  Len(downloaded) = Len(configRootFS)

\* the cross-check of the downloaded rootfs against the config's
rootFSMatches(downloaded, configRootFS) ==
  /\ Len(downloaded) = Len(configRootFS)
  /\ \A i \in 1..Len(downloaded) : downloaded[i] = configRootFS[i]

\* a pullSchema2Config that does not verify the blob
pullSchema2ConfigUnverified(dgst, blobDgst) == ""

\* pullSchema2Config after the retry loop: the blob is verified against the
\* requested digest
pullSchema2ConfigErr(dgst, blobDgst) ==
  IF blobDgst # dgst THEN "image config verification failed" ELSE ""

\* ------------------------------------------------------------------- Init
\* the goroutines pullSchema2Layers has started, and its context
S2Spawn(c, d, done, cancelled) ==
  /\ cfgG' = c
  /\ dlG' = d
  /\ downloadsDone' = done
  /\ ctxCancelled' = cancelled

\* a pullSchema2Layers that goes on with the channels of the call before
S2FreshStaleChannels ==
  /\ UNCHANGED <<configChan, configErrChan, layerErrChan>>
  /\ configJSON' = NoConfig
  /\ s2err' = ""
  /\ downloadedRootFS' = [nil |-> TRUE, diffIDs |-> <<>>]
  /\ release' = "nil"

\* the channels and results pullSchema2Layers makes anew at each call
S2Fresh ==
  /\ configChan' = <<>>
  /\ configErrChan' = <<>>
  /\ layerErrChan' = <<>>
  /\ configJSON' = NoConfig
  /\ s2err' = ""
  /\ downloadedRootFS' = [nil |-> TRUE, diffIDs |-> <<>>]
  /\ release' = "nil"

\* pullSchema2Layers has returned and its results have been read: its
\* channels, goroutines and locals are gone
S2Gone ==
  /\ S2Fresh
  /\ S2Spawn("idle", "idle", FALSE, FALSE)

\* a schema puller is entered: nothing downloaded, released or put yet
CountsFresh ==
  /\ releaseCalls' = 0
  /\ dlReturned' = 0
  /\ putCalls' = 0

\* the goroutines of the last pullSchema2Layers call have ended; they share
\* nothing with a later call, which is taken after them
GoroutinesEnded == cfgG \notin {"run", "sentErr"} /\ dlG # "run"

InitPullIn(scenarios) ==
  /\ \E sc \in scenarios :
       /\ goos = sc.goos
       /\ config = sc.config
       /\ ref = sc.ref
       /\ imageStore = sc.store.images
       /\ refStore = sc.store.refs
  /\ imageStore0 = imageStore
  /\ refStore0 = refStore
  /\ refStoreT = refStore
  /\ imageStoreT = imageStore
  /\ pc = "idle"
  /\ tags = <<>>
  /\ curRef = ref
  /\ layersDownloaded = FALSE
  /\ tagUpdated = FALSE
  /\ status = <<>>
  /\ stack = <<>>
  /\ manifest = NoManifest
  /\ target = ""
  /\ mref = ref
  /\ verified = FALSE
  /\ mismatch = FALSE
  /\ manifestDigest = ""
  /\ retId = ""
  /\ retErr = ""
  /\ retKind = "none"
  /\ pullErr = ""
  /\ cfgG = "idle"
  /\ dlG = "idle"
  /\ configChan = <<>>
  /\ configErrChan = <<>>
  /\ layerErrChan = <<>>
  /\ downloadsDone = FALSE
  /\ ctxCancelled = FALSE
  /\ configJSON = NoConfig
  /\ s2err = ""
  /\ downloadedRootFS = [nil |-> TRUE, diffIDs |-> <<>>]
  /\ release = "nil"
  /\ releaseCalls = 0
  /\ dlReturned = 0
  /\ putCalls = 0
  /\ refOps = <<>>
  /\ tagList = <<>>
  /\ pulled = <<>>
  /\ dlCalls = 0
  /\ getFound = FALSE
  /\ events = <<>>
  /\ validated = FALSE
  /\ pulling = ""
  /\ pullFallback = FALSE

\* --------------------------------------------------------- pull, pullRepository
\* whether the error pullRepository returns for pullTag's error is a
\* fallbackError, pullTag's being one or not: in the loop over all tags a
\* fallbackError is replaced by the error it wraps
tagErrStaysFallback(nameOnly, isFallback) == isFallback /\ ~nameOnly

\* whether pull returns a fallbackError for the error pullRepository
\* returned: one is returned as it is, any other is wrapped into one when
\* continueOnError says so
pullReturnsFallback(isFallback, continues) == isFallback \/ continues

\* pull: newRepository and Manifests, either of which may fail
PullBegin ==
  /\ pc = "idle"
  /\ \E e \in {"", "newRepository error", "Manifests error"} : \E isFallback \in BOOLEAN :
       /\ e = "" => ~isFallback
       /\ pullErr' = e
       /\ pullFallback' = isFallback
       /\ pc' = IF e = "" THEN "pullRepository" ELSE "done"
  /\ UNCHANGED <<layerVars, auxVars, events, validated, pulling, goos, config, ref, storeVars, tags, curRef, layersDownloaded,
                 tagUpdated, status, stack, manifest, target, mref,
                 verified, mismatch, manifestDigest, retId, retErr, retKind, s2Vars,
                 countVars, histVars>>

\* a writeStatus with one message
writeStatusAlwaysNewer(downloaded) == "Downloaded newer image"

\* writeStatus
writeStatus(downloaded) ==
  IF downloaded THEN "Downloaded newer image" ELSE "Image is up to date"

\* pullRepository up to the first pullTag: a tag or digest reference is pulled
\* as it is, a name-only reference asks the tag service for all tags
PullRepository ==
  /\ pc = "pullRepository"
  /\ IF ref.kind # "name"
       THEN /\ curRef' = ref
            /\ pulled' = Append(pulled, ref)
            /\ pc' = "pullTag"
            /\ UNCHANGED <<tags, tagList, pullErr, pullFallback>>
       ELSE \E e \in {"", "Tags.All error"} : \E tl \in TagLists :
            \E isFallback \in BOOLEAN : \E continues \in BOOLEAN :
            /\ e # "" => tl = <<>>
            /\ e = "" => (~isFallback /\ ~continues)
            /\ isFallback => ~continues
            /\ tags' = tl
            /\ tagList' = tl
            /\ pullErr' = e
            /\ pullFallback' = pullReturnsFallback(isFallback, continues)
            /\ pc' = IF e = "" THEN "tagsLoop" ELSE "done"
            /\ UNCHANGED <<curRef, pulled>>
  /\ UNCHANGED <<layerVars, auxVars, events, validated, pulling, goos, config, ref, storeVars, layersDownloaded, tagUpdated, status,
                 stack, manifest, target, mref, verified, mismatch,
                 manifestDigest, retId, retErr, retKind, s2Vars, countVars, refOps, dlCalls, getFound>>

\* the loop over the tags: the next tag is pulled, or, the tags exhausted, the
\* status is written and pullRepository returns nil
TagsLoop ==
  /\ pc = "tagsLoop"
  /\ IF tags = <<>>
       THEN /\ status' = Append(status, writeStatus(layersDownloaded))
            /\ pc' = "done"
            /\ pullErr' = ""
            /\ UNCHANGED <<tags, curRef, pulled, pullFallback>>
       ELSE \E e \in {"", "WithTag error"} : \E continues \in BOOLEAN :
            /\ e = "" => ~continues
            /\ pullErr' = e
            /\ pullFallback' = pullReturnsFallback(FALSE, continues)
            /\ pc' = IF e = "" THEN "pullTag" ELSE "done"
            /\ curRef' = IF e = "" THEN WithTag(Head(tags)) ELSE curRef
            /\ pulled' = IF e = "" THEN Append(pulled, WithTag(Head(tags))) ELSE pulled
            /\ tags' = Tail(tags)
            /\ UNCHANGED status
  /\ UNCHANGED <<layerVars, auxVars, events, validated, pulling, goos, config, ref, storeVars, layersDownloaded, tagUpdated,
                 stack, manifest, target, mref, verified, mismatch,
                 manifestDigest, retId, retErr, retKind, s2Vars, countVars, refOps, tagList, dlCalls, getFound>>

\* a loop that goes on to the next tag after a tag's pull failed
afterTagPullSkipsFailed(err, nameOnly) == IF nameOnly THEN "tagsLoop" ELSE "done"

\* where pullRepository goes on after pullTag returned err: an error ends it;
\* otherwise the loop over the tags goes on, or, for a tag or digest
\* reference, the status is written and it returns
afterTagPull(err, nameOnly) ==
  IF err # "" THEN "done" ELSE IF nameOnly THEN "tagsLoop" ELSE "done"

\* pullTag has returned to pullRepository; what pullTag held is gone
PullTagReturn ==
  /\ pc = "tagRet"
  /\ GoroutinesEnded
  /\ pc' = afterTagPull(retErr, ref.kind = "name")
  /\ IF retErr # ""
       THEN \E isFallback \in BOOLEAN : \E continues \in BOOLEAN :
            /\ pullErr' = retErr
            /\ pullFallback' =
                 pullReturnsFallback(tagErrStaysFallback(ref.kind = "name", isFallback), continues)
            /\ UNCHANGED <<layersDownloaded, status>>
       ELSE IF ref.kind # "name"
         THEN /\ layersDownloaded' = tagUpdated
              /\ status' = Append(status, writeStatus(tagUpdated))
              /\ pullErr' = ""
              /\ UNCHANGED pullFallback
         ELSE /\ layersDownloaded' = (layersDownloaded \/ tagUpdated)
              /\ UNCHANGED <<status, pullErr, pullFallback>>
  /\ tagUpdated' = FALSE
  /\ curRef' = ref
  /\ mref' = ref
  /\ manifest' = NoManifest
  /\ target' = ""
  /\ verified' = FALSE
  /\ mismatch' = FALSE
  /\ manifestDigest' = ""
  /\ retId' = ""
  /\ retErr' = ""
  /\ retKind' = "none"
  /\ refStoreT' = refStore
  /\ imageStoreT' = imageStore
  /\ refOps' = <<>>
  /\ dlCalls' = 0
  /\ getFound' = FALSE
  /\ S2Gone
  /\ CountsFresh
  /\ events' = <<>>
  /\ validated' = FALSE
  /\ pulling' = ""
  /\ UNCHANGED <<layerVars, auxVars, goos, config, ref, imageStore, refStore, imageStore0, refStore0, tags,
                 stack, tagList, pulled>>

\* ------------------------------------------------------------------ pullTag
\* where a schema puller called for manifest m is entered
PullerEntry(m) ==
  CASE m.kind = "schema1" -> "s1"
    [] m.kind \in {"schema2", "oci"} -> "s2"
    [] m.kind = "list" -> "mlBegin"
    [] OTHER -> "unknown"

\* a call pullTag makes: what is called, with what, and what it returned
Call(op, arg, res) == [op |-> op, arg |-> arg, res |-> res]

\* a pullTag that falls back whatever the reference and the error are
fallsBackOnAnyError(r, getErr) == getErr # ""

\* whether pullTag, the fetch by digest having failed with getErr, falls back
\* to the fetch by tag: the reference carries a tag and the error is a
\* not-found error
fallsBack(r, getErr) == IsTagged(r) /\ getErr = "not found"

\* the error pullTag returns before it calls a schema puller ("" none):
\* tagErr is the tag service's, getErr the manifest store's for the fetch by
\* digest, byTagErr the manifest service's for the fetch by tag, m the
\* manifest fetched and mt its config media type
pullTagPrologueErr(cfg, r, tagErr, getErr, byTagErr, m, mt) ==
  IF tagErr # "" THEN tagErr
  ELSE IF getErr # "" /\ ~fallsBack(r, getErr) THEN getErr
  ELSE IF getErr # "" /\ byTagErr # "" THEN byTagErr
  ELSE IF m.kind = "none" THEN "image manifest does not exist"
  ELSE IF m.kind = "schema2" /\ validateMediaType(cfg, mt) # ""
    THEN validateMediaType(cfg, mt)
  ELSE IF m.kind = "schema1" /\ cfg.requireSchema2 THEN "invalid manifest: not schema2"
  ELSE IF m.kind = "unknown" THEN "invalidManifestFormatError"
  ELSE ""

\* the calls pullTag makes before it calls a schema puller, in order: the
\* fetch by digest; on a fallback the WARNING, Manifests and the fetch by
\* tag; validateMediaType for a schema2 manifest; the "Pulling from" message
prologueCalls(cfg, r, tagErr, getErr, byTagErr, m, mt) ==
  IF tagErr # "" THEN <<>>
  ELSE LET get == <<Call("manifestStore.Get", "", getErr)>>
           fb == IF getErr = "" \/ ~fallsBack(r, getErr) THEN <<>>
                 ELSE IF byTagErr = "Manifests error"
                   THEN <<Call("progress", "WARNING", ""), Call("Manifests", "", byTagErr)>>
                 ELSE <<Call("progress", "WARNING", ""), Call("Manifests", "", ""),
                        Call("ms.Get", "tag", byTagErr)>>
           val == IF m.kind = "schema2"
                    THEN <<Call("validateMediaType", mt, validateMediaType(cfg, mt))>>
                  ELSE <<>>
           msg == IF m.kind # "none" /\ (m.kind = "schema2" => validateMediaType(cfg, mt) = "")
                    THEN <<Call("progress", "Pulling from", "")>>
                  ELSE <<>>
       IN get \o fb \o val \o msg

\* pullTag from its entry to the call of the schema puller: the tag is
\* resolved, the manifest fetched (by tag if the fetch by digest finds
\* nothing), its media type validated and its type dispatched on
PullTagFetch ==
  /\ pc = "pullTag"
  /\ GoroutinesEnded
  /\ \E tagErr \in (IF IsTagged(curRef) THEN {"", "tag service error"} ELSE {""}) :
     \E getErr \in {"", "not found", "manifest get error"} :
     \E byTagErr \in {"", "get by tag error", "Manifests error"} :
     \E m \in Manifests \cup {NoManifest} : \E mt \in MediaTypes :
       LET e == pullTagPrologueErr(config, curRef, tagErr, getErr, byTagErr, m, mt) IN
       /\ tagErr # "" => getErr = ""
       /\ (getErr = "" \/ ~fallsBack(curRef, getErr)) => byTagErr = ""
       /\ (tagErr # "" \/ (getErr # "" /\ (~fallsBack(curRef, getErr) \/ byTagErr # "")))
            => m = NoManifest
       /\ m.kind # "schema2" => mt = "image"
       /\ events' = prologueCalls(config, curRef, tagErr, getErr, byTagErr, m, mt)
       /\ validated' = (m.kind = "schema2" /\ validateMediaType(config, mt) = "")
       /\ manifest' = m
       /\ retErr' = e
       /\ pc' = IF e = "" THEN PullerEntry(m) ELSE "tagRet"
  /\ retKind' = "none"
  /\ mismatch' = FALSE
  /\ mref' = curRef
  /\ refStoreT' = refStore
  /\ imageStoreT' = imageStore
  /\ refOps' = <<>>
  /\ dlCalls' = 0
  /\ getFound' = FALSE
  /\ stack' = <<>>
  /\ verified' = FALSE
  /\ tagUpdated' = FALSE
  /\ manifestDigest' = ""
  /\ retId' = ""
  /\ target' = ""
  /\ S2Fresh
  /\ S2Spawn("idle", "idle", FALSE, FALSE)
  /\ CountsFresh
  /\ pulling' = ""
  /\ UNCHANGED <<layerVars, auxVars, pullFallback, goos, config, ref, imageStore, refStore, imageStore0, refStore0, tags,
                 curRef, layersDownloaded, status, pullErr, tagList, pulled>>

\* a schema puller returns id and err to its caller, callers being the
\* pullManifestList activations that remain, or pullTag if none does; kind is
\* "image" for pullSchema1, pullSchema2 and pullOCI, "list" for pullManifestList
Return(callers, kind, id, err) ==
  /\ retKind' = kind
  /\ retId' = id
  /\ retErr' = err
  /\ pc' = IF callers # <<>> THEN "listRet"
           ELSE IF err = "" THEN "reconcile" ELSE "tagRet"

ReturnImage(id, err) == Return(stack, "image", id, err)

\* ---------------------------------------------- pullSchema2, pullOCI, pullSchema2Layers
\* a pullSchema2Layers that never returns early
shortCircuitsNever(getErr) == FALSE

\* a pullSchema2Layers with the test of ImageStore.Get's error inverted
shortCircuitsOnError(getErr) == getErr # ""

\* pullSchema2Layers returns the target at once when ImageStore.Get returned
\* no error for it
shortCircuits(getErr) == getErr = ""

\* pullSchema2 or pullOCI, and pullSchema2Layers up to the point where it
\* waits: the manifest digest, the short-circuit on an image already stored,
\* the layer descriptors, the config goroutine, and (not on Windows) the
\* download goroutine
S2Begin ==
  /\ pc = "s2"
  /\ S2Fresh
  /\ CountsFresh
  /\ target' = manifest.target
  /\ pulling' = manifest.kind
  /\ manifest' = NoManifest
  /\ \E payloadErr \in {"", "payload error"} :
     \E getErr \in (IF manifest.target \in imageStore THEN {"", "ImageStore.Get error"}
                    ELSE {"not found"}) :
     \E envErr \in {"", "could not validate layer digest", "unsupported operating system"} :
       LET md == schema2ManifestDigest(mref, manifest, payloadErr)
           e == md.err
           getOK == shortCircuits(getErr) IN
       /\ (e # "" \/ getErr = "") => envErr = ""
       /\ e # "" => getErr # ""
       /\ getFound' = (e = "" /\ getErr = "")
       /\ verified' = (e = "" /\ IsCanonical(mref))
       /\ mismatch' = (mismatch \/ md.err = "manifest verification failed")
       /\ manifestDigest' = IF e = "" /\ stack = <<>> THEN md.dgst ELSE manifestDigest
       /\ IF e # "" THEN
            ReturnImage("", e) /\ S2Spawn("idle", "idle", FALSE, FALSE) /\ dlCalls' = 0
          ELSE IF getOK THEN
            ReturnImage(manifest.target, "") /\ S2Spawn("idle", "idle", FALSE, FALSE)
              /\ dlCalls' = 0
          ELSE IF envErr = "could not validate layer digest" THEN
            ReturnImage("", envErr) /\ S2Spawn("idle", "idle", FALSE, FALSE) /\ dlCalls' = 0
          ELSE IF goos = "windows" THEN
            \* the config is received before the download is started
            /\ envErr = ""
            /\ S2Spawn("run", "idle", FALSE, FALSE)
            /\ dlCalls' = 0
            /\ pc' = "s2WinWait"
            /\ UNCHANGED <<retId, retErr, retKind>>
          ELSE IF envErr # "" THEN
            \* the config goroutine is running; the deferred cancel runs
            ReturnImage("", envErr) /\ S2Spawn("run", "idle", FALSE, TRUE) /\ dlCalls' = 0
          ELSE
            /\ S2Spawn("run", IF config.hasDM THEN "run" ELSE "idle", ~config.hasDM, FALSE)
            /\ dlCalls' = IF config.hasDM THEN 1 ELSE 0
            /\ pc' = "s2WaitCfg"
            /\ UNCHANGED <<retId, retErr, retKind>>
  /\ UNCHANGED <<layerVars, auxVars, pullFallback, events, validated, goos, config, ref, storeVars, tags, curRef,
                 layersDownloaded, tagUpdated, status, stack, mref, pullErr, refOps, tagList,
                 pulled>>

\* the config goroutine: pullSchema2Config returns; the config goes to
\* configChan, an error to configErrChan
ConfigFetch ==
  /\ cfgG = "run"
  /\ \E fetchErr \in {"", "download failed after attempts"} : \E blobDgst \in ConfigDigests :
       LET e == IF fetchErr # "" THEN fetchErr
                ELSE pullSchema2ConfigErr(target, blobDgst) IN
       /\ fetchErr # "" => blobDgst = target
       /\ IF e = ""
            THEN /\ configChan' = <<blobDgst>>
                 /\ cfgG' = "done"
                 /\ UNCHANGED configErrChan
            ELSE /\ configErrChan' = <<"imageConfigPullError">>
                 /\ cfgG' = "sentErr"
                 /\ UNCHANGED configChan
  /\ UNCHANGED <<layerVars, auxVars, obsVars, goos, config, ref, storeVars, flowVars, dlG, layerErrChan, downloadsDone,
                 ctxCancelled, configJSON, s2err, downloadedRootFS, release, countVars, histVars>>

\* the config goroutine after a failed fetch: cancel()
ConfigCancel ==
  /\ cfgG = "sentErr"
  /\ cfgG' = "failed"
  /\ ctxCancelled' = TRUE
  /\ UNCHANGED <<layerVars, auxVars, obsVars, goos, config, ref, storeVars, flowVars, dlG, configChan, configErrChan,
                 layerErrChan, downloadsDone, configJSON, s2err, downloadedRootFS,
                 release, countVars, histVars>>

\* the download goroutine: DownloadManager.Download returns; an error goes to
\* layerErrChan and cancels nothing, a rootfs is kept with its release
\* function and downloadsDone is closed
LayerDownload ==
  /\ dlG = "run"
  /\ \E e \in {"", "layer download error"} : \E r \in RootFSValues :
       /\ e # "" => r = <<>>
       /\ IF e # ""
            THEN /\ layerErrChan' = <<e>>
                 /\ dlG' = "failed"
                 /\ UNCHANGED <<downloadsDone, downloadedRootFS, release, dlReturned>>
            ELSE /\ downloadedRootFS' = [nil |-> FALSE, diffIDs |-> r]
                 /\ release' = "set"
                 /\ dlReturned' = dlReturned + 1
                 /\ downloadsDone' = TRUE
                 /\ dlG' = "done"
                 /\ UNCHANGED layerErrChan
  /\ UNCHANGED <<layerVars, auxVars, obsVars, goos, config, ref, storeVars, flowVars, cfgG, configChan, configErrChan,
                 ctxCancelled, configJSON, s2err, releaseCalls, putCalls, histVars>>

\* what receiveConfig and the check that follows it yield for the message
\* the select takes, parsed being what the config blob unmarshals to: the
\* error to return ("" none) and the config
receiveConfig(cfgChan, errChan, parsed) ==
  IF errChan # <<>> THEN [err |-> Head(errChan), c |-> NoConfig]
  ELSE LET c == [dgst |-> Head(cfgChan), nilRootFS |-> parsed.nilRootFS,
                 diffIDs |-> parsed.diffIDs, bad |-> parsed.bad] IN
       IF receiveConfigErr(c) # "" THEN [err |-> receiveConfigErr(c), c |-> NoConfig]
       ELSE IF c.nilRootFS THEN [err |-> "errRootFSInvalid", c |-> NoConfig]
       ELSE [err |-> "", c |-> c]

NilParsed == [nilRootFS |-> TRUE, diffIDs |-> <<>>, bad |-> FALSE]

\* pullSchema2Layers waits for the config (not on Windows, where it has it):
\* on an error it cancels and goes on to wait for the download
S2WaitConfig ==
  /\ pc = "s2WaitCfg"
  /\ configChan # <<>> \/ configErrChan # <<>>
  /\ \E parsed \in ParsedConfigs :
       LET rc == receiveConfig(configChan, configErrChan, parsed) IN
       /\ configErrChan # <<>> => parsed = NilParsed
       /\ configJSON' = rc.c
       /\ s2err' = rc.err
       /\ ctxCancelled' = (ctxCancelled \/ rc.err # "")
       /\ pc' = IF rc.err # "" THEN "s2Drain" ELSE "s2Join"
  /\ configChan' = <<>>
  /\ configErrChan' = <<>>
  /\ UNCHANGED <<layerVars, auxVars, obsVars, goos, config, ref, storeVars, tags, curRef, layersDownloaded, tagUpdated,
                 status, stack, manifest, target, mref, verified, mismatch,
                 manifestDigest, retId, retErr, retKind, pullErr, cfgG, dlG, layerErrChan,
                 downloadsDone, downloadedRootFS, release, countVars, histVars>>

\* a return that prefers the layer error
drainErrLayerFirst(cfgErr, layerErr) == IF layerErr # "" THEN layerErr ELSE cfgErr

\* the error pullSchema2Layers returns after a config error, once the
\* download has ended with layerErr ("" none)
drainErr(cfgErr, layerErr) == cfgErr

\* after a config error pullSchema2Layers waits for the download to end and
\* returns the config error
S2Drain ==
  /\ pc = "s2Drain"
  /\ downloadsDone \/ layerErrChan # <<>>
  /\ layerErrChan' = <<>>
  /\ ctxCancelled' = TRUE
  /\ ReturnImage("", drainErr(s2err, IF layerErrChan # <<>> THEN Head(layerErrChan) ELSE ""))
  /\ UNCHANGED <<layerVars, auxVars, obsVars, goos, config, ref, storeVars, tags, curRef, layersDownloaded, tagUpdated,
                 status, stack, manifest, target, mref, verified, mismatch,
                 manifestDigest, pullErr, cfgG, dlG, configChan, configErrChan,
                 downloadsDone, configJSON, s2err, downloadedRootFS, release, countVars, histVars>>

\* on Windows pullSchema2Layers receives the config before it starts the
\* download, and checks it against the nLayers layer descriptors
S2WinWait ==
  /\ pc = "s2WinWait"
  /\ configChan # <<>> \/ configErrChan # <<>>
  /\ \E parsed \in ParsedConfigs : \E nLayers \in 0..MaxLayers :
     \E compatErr \in {"", "incompatible image"} :
     \E osErr \in {"", "unsupported operating system"} :
       LET rc == receiveConfig(configChan, configErrChan, parsed)
           e == IF rc.err # "" THEN rc.err
                ELSE IF compatErr # "" THEN compatErr
                ELSE IF nLayers # Len(rc.c.diffIDs) THEN "errRootFSMismatch"
                ELSE osErr IN
       /\ configErrChan # <<>> => parsed = NilParsed
       /\ rc.err # "" => compatErr = "" /\ osErr = "" /\ nLayers = 0
       /\ compatErr # "" => osErr = "" /\ nLayers = 0
       /\ configJSON' = rc.c
       /\ s2err' = e
       /\ IF e # ""
            THEN /\ ReturnImage("", e)
                 /\ ctxCancelled' = TRUE
                 /\ UNCHANGED <<dlG, downloadsDone, dlCalls>>
            ELSE /\ dlG' = IF config.hasDM THEN "run" ELSE "idle"
                 /\ downloadsDone' = ~config.hasDM
                 /\ dlCalls' = IF config.hasDM THEN dlCalls + 1 ELSE dlCalls
                 /\ pc' = "s2Join"
                 /\ UNCHANGED <<ctxCancelled, retId, retErr, retKind>>
  /\ configChan' = <<>>
  /\ configErrChan' = <<>>
  /\ UNCHANGED <<layerVars, auxVars, obsVars, goos, config, ref, storeVars, tags, curRef, layersDownloaded, tagUpdated,
                 status, stack, manifest, target, mref, verified, mismatch,
                 manifestDigest, pullErr, cfgG, layerErrChan, downloadedRootFS, release, countVars,
                 refOps, tagList, pulled, getFound>>

\* the error of the cross-check of the rootfs Download returned, if it
\* returned one, against the config's ("" none)
crossCheckErr(downloaded, c) ==
  IF ~downloaded.nil /\ ~rootFSMatches(downloaded.diffIDs, c.diffIDs)
    THEN "errRootFSMismatch" ELSE ""

\* with the config in hand pullSchema2Layers waits for the download; a layer
\* error is returned; otherwise the rootfs is cross-checked, the config is
\* put into the image store and release, if set, runs as the function returns
S2Join ==
  /\ pc = "s2Join"
  /\ downloadsDone \/ layerErrChan # <<>>
  /\ \E putErr \in {"", "ImageStore.Put error"} :
       LET e == IF layerErrChan # <<>> THEN Head(layerErrChan)
                ELSE IF crossCheckErr(downloadedRootFS, configJSON) # ""
                  THEN crossCheckErr(downloadedRootFS, configJSON)
                ELSE putErr IN
       /\ (layerErrChan # <<>> \/ crossCheckErr(downloadedRootFS, configJSON) # "")
            => putErr = ""
       /\ s2err' = e
       /\ releaseCalls' = IF layerErrChan = <<>> /\ release = "set"
                            THEN releaseCalls + 1 ELSE releaseCalls
       /\ imageStore' = IF e = "" THEN imageStore \cup {configJSON.dgst} ELSE imageStore
       /\ putCalls' = IF e = "" THEN putCalls + 1 ELSE putCalls
       /\ ReturnImage(IF e = "" THEN configJSON.dgst ELSE "", e)
  /\ layerErrChan' = <<>>
  /\ ctxCancelled' = TRUE
  /\ UNCHANGED <<layerVars, auxVars, obsVars, goos, config, ref, refStore, imageStore0, refStore0, refStoreT, imageStoreT, tags,
                 curRef, layersDownloaded, tagUpdated, status, stack, manifest,
                 target, mref, verified, mismatch, manifestDigest, pullErr, cfgG,
                 dlG, configChan, configErrChan, downloadsDone, configJSON,
                 downloadedRootFS, release, dlReturned, histVars>>

\* ---------------------------------------------------------------- pullSchema1
\* pullSchema1 up to the download: the platform check (a list member has a
\* platform), verifySchema1Manifest, fixManifestLayers, the layer descriptors
S1Verify ==
  /\ pc = "s1"
  /\ CountsFresh
  /\ target' = ""
  /\ pulling' = "schema1"
  /\ dlCalls' = 0
  /\ getFound' = FALSE
  /\ \E osErr \in (IF stack # <<>> THEN {"", "unsupported operating system"} ELSE {""}) :
     \E wellFormed \in BOOLEAN :
     \E layersErr \in {"", "fixManifestLayers error", "could not validate layer digest"} :
       LET v == verifySchema1Manifest(mref, manifest, wellFormed)
           e == IF osErr # "" THEN osErr ELSE IF v # "" THEN v ELSE layersErr IN
       /\ osErr # "" => wellFormed /\ layersErr = ""
       /\ (osErr = "" /\ v # "") => layersErr = ""
       /\ verified' = (e = "" /\ IsCanonical(mref))
       /\ mismatch' = (mismatch \/ (osErr = "" /\ IsCanonical(mref) /\ manifest.dgst # mref.dgst))
       /\ IF e # ""
            THEN ReturnImage("", e)
            ELSE pc' = "s1Download" /\ UNCHANGED <<retId, retErr, retKind>>
  /\ UNCHANGED <<layerVars, auxVars, pullFallback, events, validated, goos, config, ref, storeVars, tags, curRef,
                 layersDownloaded, tagUpdated, status, stack, manifest, mref,
                 manifestDigest, pullErr, s2Vars, refOps, tagList, pulled>>

\* pullSchema1 from the download on: Download (called on a nil
\* DownloadManager it panics), the deferred release, the config made from
\* the v1 config, ImageStore.Put, the manifest digest
S1Download ==
  /\ pc = "s1Download"
  /\ IF ~config.hasDM
       THEN /\ pc' = "panic"
            /\ UNCHANGED <<imageStore, manifestDigest, retId, retErr, retKind, countVars,
                           dlCalls>>
       ELSE \E dlErr \in {"", "layer download error"} :
            \E cfgErr \in {"", "MakeConfigFromV1Config error"} :
            \E putErr \in {"", "ImageStore.Put error"} :
              LET e == IF dlErr # "" THEN dlErr ELSE IF cfgErr # "" THEN cfgErr ELSE putErr IN
              /\ dlErr # "" => cfgErr = "" /\ putErr = ""
              /\ cfgErr # "" => putErr = ""
              /\ dlCalls' = dlCalls + 1
              /\ dlReturned' = IF dlErr = "" THEN dlReturned + 1 ELSE dlReturned
              /\ releaseCalls' = IF dlErr = "" THEN releaseCalls + 1 ELSE releaseCalls
              /\ putCalls' = IF e = "" THEN putCalls + 1 ELSE putCalls
              /\ imageStore' = IF e = "" THEN imageStore \cup {"s1"} ELSE imageStore
              /\ manifestDigest' = IF e = "" /\ stack = <<>> THEN manifest.dgst
                                   ELSE manifestDigest
              /\ ReturnImage(IF e = "" THEN "s1" ELSE "", e)
  /\ manifest' = NoManifest
  /\ UNCHANGED <<layerVars, auxVars, obsVars, goos, config, ref, refStore, imageStore0, refStore0, refStoreT, imageStoreT, tags,
                 curRef, layersDownloaded, tagUpdated, status, stack,
                 target, mref, verified, mismatch, pullErr, s2Vars, refOps, tagList,
                 pulled, getFound>>

\* ----------------------------------------------------------- pullManifestList
\* a pullManifestList activation is the number of its ranked candidates not
\* yet tried
Top == stack[Len(stack)]
Pop == SubSeq(stack, 1, Len(stack) - 1)

\* pullManifestList up to its loop: the digest of the list, filterManifests
MlBegin ==
  /\ pc = "mlBegin"
  /\ \E n \in 0..MaxMatches : \E payloadErr \in {"", "payload error"} :
       LET md == schema2ManifestDigest(mref, manifest, payloadErr) IN
       /\ md.err # "" => n = 0
       /\ verified' = (md.err = "" /\ IsCanonical(mref))
       /\ mismatch' = (mismatch \/ md.err = "manifest verification failed")
       /\ manifestDigest' = IF md.err = "" /\ stack = <<>> THEN md.dgst ELSE manifestDigest
       /\ IF md.err # ""
            THEN Return(stack, "list", "", md.err) /\ UNCHANGED stack
            ELSE /\ stack' = Append(stack, n)
                 /\ pc' = "ml"
                 /\ UNCHANGED <<retId, retErr, retKind>>
  /\ manifest' = NoManifest
  /\ UNCHANGED <<layerVars, auxVars, obsVars, goos, config, ref, storeVars, tags, curRef, layersDownloaded,
                 tagUpdated, status, target, mref, pullErr, s2Vars, countVars, histVars>>

\* the digest a list entry names; the manifest fetched for it may have another
EntryDigest == "d1"

\* one turn of the loop over the matches: with none left noMatchesErr is
\* returned; otherwise the match is checked, its manifest fetched and
\* dispatched on, an unknown type being skipped
MlNext ==
  /\ pc = "ml"
  /\ GoroutinesEnded
  /\ IF Top = 0
       THEN /\ stack' = Pop
            /\ Return(Pop, "list", "", "noMatchesErr")
            /\ UNCHANGED <<manifest, mref, verified>>
       ELSE \E e \in {"", "incompatible image", "manifest get error", "WithDigest error"} :
            \E m \in Manifests :
              /\ e # "" => m = [kind |-> "unknown", dgst |-> "d1", target |-> ""]
              /\ m.kind = "list" => Len(stack) < MaxDepth
              /\ IF e # "" THEN
                   /\ stack' = Pop
                   /\ Return(Pop, "list", "", e)
                   /\ UNCHANGED <<manifest, mref, verified>>
                 ELSE IF m.kind = "unknown" THEN
                   /\ stack' = [stack EXCEPT ![Len(stack)] = @ - 1]
                   /\ pc' = "ml"
                   /\ UNCHANGED <<manifest, mref, verified, retId, retErr, retKind>>
                 ELSE
                   /\ stack' = [stack EXCEPT ![Len(stack)] = @ - 1]
                   /\ manifest' = m
                   /\ mref' = WithDigest(EntryDigest)
                   /\ verified' = FALSE
                   /\ pc' = PullerEntry(m)
                   /\ UNCHANGED <<retId, retErr, retKind>>
  /\ S2Fresh
  /\ dlCalls' = 0
  /\ getFound' = FALSE
  /\ validated' = FALSE
  /\ pulling' = ""
  /\ S2Spawn("idle", "idle", FALSE, FALSE)
  /\ UNCHANGED <<layerVars, auxVars, pullFallback, events, goos, config, ref, storeVars, tags, curRef, layersDownloaded,
                 tagUpdated, status, target, mismatch, manifestDigest,
                 pullErr, countVars, refOps, tagList, pulled>>

\* whether the loop goes on to the next match after the nested
\* pullManifestList returned err # ""
nestedListContinues(err) == err # "noMatchesErr"

\* a loop that goes on to the next match whatever the puller returned
listLoopAlwaysContinues(kind, err) == TRUE

\* whether the loop goes on to the next match after the puller called for
\* this match returned err: only after a nested pullManifestList's error;
\* what an image puller returned, and a nested list's success, is returned
listLoopContinues(kind, err) == kind = "list" /\ err # "" /\ nestedListContinues(err)

\* a puller called from the loop has returned: after a nested list's error
\* the loop may go on to the next match; otherwise this pullManifestList
\* returns what the puller returned
ListRet ==
  /\ pc = "listRet"
  /\ GoroutinesEnded
  /\ IF listLoopContinues(retKind, retErr)
       THEN /\ pc' = "ml"
            /\ retId' = ""
            /\ retErr' = ""
            /\ retKind' = "none"
            /\ UNCHANGED stack
       ELSE /\ stack' = Pop
            /\ Return(Pop, "list", retId, retErr)
  /\ verified' = FALSE
  /\ pulling' = ""
  /\ S2Gone
  /\ CountsFresh
  /\ UNCHANGED <<layerVars, auxVars, pullFallback, events, validated, goos, config, ref, storeVars, tags, curRef,
                 layersDownloaded, tagUpdated, status, manifest, target, mref, mismatch,
                 manifestDigest, pullErr, histVars>>

\* ------------------------------------------------- the reference store update
\* a StoreAdd that leaves the store as it is
storeAddNothing(store, key, id) == store

\* ReferenceStore.AddDigest or AddTag with force: key is associated with id
StoreAdd(store, key, id) == [store EXCEPT ![key] = id]

\* addDigestReference: the digest association name@manifestDigest -> id
addDigestReference(store, mdgst, id) == StoreAdd(store, mdgst, id)

\* the associations pullTag adds when the store maps the reference to
\* another image or to none: AddDigest for a digest reference,
\* addDigestReference and AddTag for a tag reference; ops are the mutators
\* called
reconcileNew(r, store, id, mdgst, failAt) ==
  IF IsCanonical(r) THEN
    IF failAt = "digest"
      THEN [store |-> store, updated |-> FALSE, err |-> "AddDigest error",
            ops |-> <<"AddDigest">>]
      ELSE [store |-> StoreAdd(store, r.dgst, id), updated |-> TRUE, err |-> "",
            ops |-> <<"AddDigest">>]
  ELSE IF failAt = "digest"
    THEN [store |-> store, updated |-> FALSE, err |-> "addDigestReference error",
          ops |-> <<"addDigestReference">>]
  ELSE IF failAt = "tag"
    THEN [store |-> addDigestReference(store, mdgst, id), updated |-> FALSE,
          err |-> "AddTag error", ops |-> <<"addDigestReference", "AddTag">>]
  ELSE [store |-> StoreAdd(addDigestReference(store, mdgst, id), r.tag, id),
        updated |-> TRUE, err |-> "", ops |-> <<"addDigestReference", "AddTag">>]

\* a pullTag that does not compare the old image ID with the new one
reconcileRetags(cfg, r, store, id, mdgst, getErr, failAt) ==
  IF ~cfg.hasRefStore THEN [store |-> store, updated |-> TRUE, err |-> "", ops |-> <<>>]
  ELSE IF getErr # "" THEN [store |-> store, updated |-> FALSE, err |-> getErr, ops |-> <<>>]
  ELSE reconcileNew(r, store, id, mdgst, failAt)

\* a pullTag that reports an update also when the store already associates
\* the reference with the image pulled
reconcileSameIsNew(cfg, r, store, id, mdgst, getErr, failAt) ==
  IF ~cfg.hasRefStore THEN [store |-> store, updated |-> TRUE, err |-> "", ops |-> <<>>]
  ELSE IF getErr = "" /\ store[RefKey(r)] = id THEN
    IF failAt = "digest"
      THEN [store |-> store, updated |-> FALSE, err |-> "addDigestReference error",
            ops |-> <<"addDigestReference">>]
      ELSE [store |-> addDigestReference(store, mdgst, id), updated |-> TRUE, err |-> "",
            ops |-> <<"addDigestReference">>]
  ELSE IF getErr # "" THEN [store |-> store, updated |-> FALSE, err |-> getErr, ops |-> <<>>]
  ELSE reconcileNew(r, store, id, mdgst, failAt)

\* the end of pullTag after the schema puller returned id: the reference
\* store after it, tagUpdated and the error returned; getErr is an error of
\* ReferenceStore.Get other than ErrDoesNotExist, failAt the store operation
\* that fails ("none", "digest" for AddDigest or addDigestReference, "tag" for
\* AddTag)
reconcile(cfg, r, store, id, mdgst, getErr, failAt) ==
  IF ~cfg.hasRefStore THEN [store |-> store, updated |-> TRUE, err |-> "", ops |-> <<>>]
  ELSE IF getErr = "" /\ store[RefKey(r)] = id THEN
    IF failAt = "digest"
      THEN [store |-> store, updated |-> FALSE, err |-> "addDigestReference error",
            ops |-> <<"addDigestReference">>]
      ELSE [store |-> addDigestReference(store, mdgst, id), updated |-> FALSE, err |-> "",
            ops |-> <<"addDigestReference">>]
  ELSE IF getErr # "" THEN [store |-> store, updated |-> FALSE, err |-> getErr, ops |-> <<>>]
  ELSE reconcileNew(r, store, id, mdgst, failAt)

Reconcile ==
  /\ pc = "reconcile"
  /\ \E getErr \in {"", "ReferenceStore.Get error"} :
     \E failAt \in {"none", "digest", "tag"} :
       LET rr == reconcile(config, curRef, refStore, retId, manifestDigest, getErr, failAt) IN
       /\ ~config.hasRefStore => getErr = "" /\ failAt = "none"
       /\ getErr # "" => failAt = "none"
       /\ (failAt = "tag") => (~IsCanonical(curRef) /\ refStore[RefKey(curRef)] # retId)
       /\ refStore' = rr.store
       /\ tagUpdated' = rr.updated
       /\ retErr' = rr.err
       /\ refOps' = rr.ops
  /\ pc' = "tagRet"
  /\ GoroutinesEnded
  /\ pulling' = ""
  /\ S2Gone
  /\ CountsFresh
  /\ UNCHANGED <<layerVars, auxVars, pullFallback, events, validated, goos, config, ref, imageStore, imageStore0, refStore0, refStoreT, imageStoreT, tags,
                 curRef, layersDownloaded, status, stack, manifest, target, mref,
                 verified, mismatch, manifestDigest, retId, retKind, pullErr, tagList, pulled, dlCalls,
                 getFound>>

\* ------------------------------------------------------ layerDescriptor.Download
Bytes == {0, 1}

\* the layer blob the descriptor's digest names
Blob == [i \in 1..BlobLen |-> i % 2]

\* the temp file is kept no longer than this
MaxFileLen == BlobLen + 1

NilFile == [open |-> FALSE, data |-> <<>>]
NilVerifier == [nil |-> TRUE, data |-> <<>>]

IsPrefix(a, b) == Len(a) <= Len(b) /\ a = SubSeq(b, 1, Len(a))

\* the state of a verifier that has been written bytes no blob with the
\* digest starts with: it can never verify
Mismatched == <<2>>

\* digest.Verifier: Write, and Verified, which holds when the bytes written
\* are the blob's
verifierWrite(v, bytes) ==
  [nil |-> FALSE,
   data |-> IF IsPrefix(v.data \o bytes, Blob) THEN v.data \o bytes ELSE Mismatched]

Verified(v) == v.data = Blob

\* a truncateDownloadFile that keeps the verifier
truncateKeepsVerifier(file, v, fails) ==
  [verifier |-> v,
   file |-> IF fails = "no" THEN [file EXCEPT !.data = <<>>] ELSE file,
   err |-> fails # "no"]

\* truncateDownloadFile: the verifier is dropped, then the file is rewound
\* and truncated; fails is "no", or "seek" or "truncate" for the call that fails
truncateDownloadFile(file, v, fails) ==
  [verifier |-> NilVerifier,
   file |-> IF fails = "no" THEN [file EXCEPT !.data = <<>>] ELSE file,
   err |-> fails # "no"]

TruncOutcomes == {"no", "seek", "truncate"}

\* an offset left at the old file's length
offsetKept(n) == n

\* the offset Download goes on with after Seek(0, io.SeekEnd) failed on a
\* temp file of n bytes
offsetAfterSeekEndFailure(n) == 0

\* what a registry that serves the blob sends from offset off on
Remainder(off) == IF off >= Len(Blob) THEN <<>> ELSE SubSeq(Blob, off + 1, Len(Blob))

\* the stream delivered bytes and ended as copyRes says: bytes of the blob
\* from off on, all of them if the stream ended without error
Honest(off, delivered, copyRes) ==
  /\ IsPrefix(delivered, Remainder(off))
  /\ copyRes = "eof" => delivered = Remainder(off)

\* a temp file as createDownloadFile returns it: held by the descriptor,
\* with the calls that closed it and the calls that removed it, and its
\* position
NewFile == [owner |-> "ld", closedBy |-> <<>>, removedBy |-> <<>>, pos |-> 0]

\* a Close that leaves the file in place
closeWithoutRemove(f, by) == [f EXCEPT !.closedBy = Append(@, by)]

\* the file is closed and removed, by Download, by Close or by the reader;
\* a closed file has no position
closeAndRemove(f, by) ==
  [f EXCEPT !.closedBy = Append(@, by), !.removedBy = Append(@, by), !.pos = 0]

\* a hand-off that keeps the descriptor's reference
handOffKeepsReference(file) == file

\* the hand-off: ld.tmpFile after the file has gone to the returned reader
handOff(file) == NilFile

InitLayer ==
  /\ tmpFile = NilFile
  /\ verifier = NilVerifier
  /\ attempts = 0
  /\ offset = 0
  /\ dlResult = "none"
  /\ dlCause = ""
  /\ truncFailed = FALSE
  /\ handed = <<>>
  /\ everCorrupted = FALSE
  /\ closed = FALSE
  /\ verifierAtStart = "none"
  /\ osFiles = <<>>

\* Download returns
Finish(file, v, res, cause, off, tf, out, corrupt) ==
  /\ tmpFile' = file
  /\ verifier' = v
  /\ dlResult' = res
  /\ dlCause' = cause
  /\ offset' = off
  /\ truncFailed' = tf
  /\ handed' = out
  /\ everCorrupted' = (everCorrupted \/ corrupt)

\* a Download that returns the error itself whether or not the truncation failed
afterTruncateRetries(t, cause, off, corrupt) ==
  Finish(t.file, t.verifier, "retry", cause, off, t.err, <<>>, corrupt)

\* Download after truncateDownloadFile was called for cause: DoNotRetry if
\* it failed, the error itself, which may be retried, if not
AfterTruncate(t, cause, off, corrupt) ==
  Finish(t.file, t.verifier, IF t.err THEN "DoNotRetry" ELSE "retry", cause, off, t.err,
         <<>>, corrupt)

\* Download from io.Copy on, the transfer starting at off into file, with
\* ld.verifier being v
Transfer(file, v, off) ==
  /\ verifierAtStart' = IF (IF v.nil THEN <<>> ELSE v.data) = file.data
                          THEN "matches" ELSE "differs"
  /\ \E delivered \in SeqsUpTo(Bytes, MaxFileLen - Len(file.data)) :
     \E copyRes \in {"eof", "retry", "DoNotRetry", "byteRange"} :
     \E written \in (IF copyRes = "eof" THEN {Len(delivered)} ELSE 0..Len(delivered)) :
       LET v1 == IF v.nil THEN [nil |-> FALSE, data |-> <<>>] ELSE v
           v2 == verifierWrite(v1, delivered)
           file2 == [file EXCEPT !.data = @ \o SubSeq(delivered, 1, written)]
           corrupt == ~Honest(off, delivered, copyRes)
       IN IF copyRes = "byteRange" THEN
            \E fails \in TruncOutcomes :
              AfterTruncate(truncateDownloadFile(file2, v2, fails), "byteRange", off, corrupt)
          ELSE IF copyRes # "eof" THEN
            Finish(file2, v2, copyRes, "copy", off, FALSE, <<>>, corrupt)
          ELSE IF ~Verified(v2) THEN
            IF off # 0
              THEN \E fails \in TruncOutcomes :
                     AfterTruncate(truncateDownloadFile(file2, v2, fails), "verify", off, corrupt)
              ELSE Finish(file2, v2, "DoNotRetry", "verify", off, FALSE, <<>>, corrupt)
          ELSE \E rewindErr \in BOOLEAN :
            IF rewindErr
              THEN Finish(NilFile, NilVerifier, "DoNotRetry", "rewind", off, FALSE, <<>>, corrupt)
              ELSE Finish(handOff(file2), v2, "ok", "", off, FALSE, file2.data, corrupt)

\* Download from ld.open on, with the temp file and the offset to resume at
Fetch(file, off) ==
  \E openRes \in {"ok", "retry", "DoNotRetry"} :
    IF openRes # "ok" THEN
      Finish(file, verifier, openRes, "open", off, FALSE, <<>>, FALSE) /\ verifierAtStart' = "none"
    ELSE \E seekErr \in (IF off # 0 THEN BOOLEAN ELSE {FALSE}) :
      IF seekErr THEN
        \E fails \in TruncOutcomes :
          /\ AfterTruncate(truncateDownloadFile(file, verifier, fails), "seek", off, FALSE)
          /\ verifierAtStart' = "none"
      \* a failure of the Seek that reads the size skips the Seek that restores
      \* the offset; it is drawn where that changes what Download may do
      ELSE \E sizeErr \in (IF Len(Blob) # 0 /\ off > Len(Blob) THEN BOOLEAN ELSE {FALSE}) :
        IF sizeErr THEN Transfer(file, verifier, off)
        ELSE IF Len(Blob) # 0 /\ off > Len(Blob) THEN
          \E fails \in TruncOutcomes :
            LET t == truncateDownloadFile(file, verifier, fails) IN
            IF t.err
              THEN AfterTruncate(t, "size", 0, FALSE) /\ verifierAtStart' = "none"
              ELSE \E seekErr2 \in BOOLEAN :
                IF seekErr2
                  THEN /\ Finish(t.file, t.verifier, "retry", "restoreSeek", 0, FALSE, <<>>, FALSE)
                       /\ verifierAtStart' = "none"
                  ELSE Transfer(t.file, t.verifier, 0)
        ELSE \E seekErr2 \in BOOLEAN :
          IF seekErr2
            THEN /\ Finish(file, verifier, "retry", "restoreSeek", off, FALSE, <<>>, FALSE)
                 /\ verifierAtStart' = "none"
            ELSE Transfer(file, verifier, off)

\* the temp files once the Download that used the last of fs has returned:
\* a file that could not be rewound has been closed and removed; a file
\* handed over is rewound and is the returned reader's; otherwise the
\* descriptor keeps it, positioned at its end
Settle(fs) ==
  IF dlCause' = "rewind"
    THEN [fs EXCEPT ![Len(fs)] = closeAndRemove(@, "Download")]
  ELSE IF dlResult' = "ok"
    THEN [fs EXCEPT ![Len(fs)] = [@ EXCEPT !.owner = "reader", !.pos = 0]]
  ELSE [fs EXCEPT ![Len(fs)] = [@ EXCEPT !.pos = Len(tmpFile'.data)]]

\* Download: the temp file is created, or the one of an earlier attempt is
\* taken up at its end, or closed, removed and replaced if that fails
Download ==
  /\ ~closed
  /\ attempts < MaxAttempts
  /\ attempts' = attempts + 1
  /\ IF ~tmpFile.open THEN
       \E createErr \in BOOLEAN :
         IF createErr
           THEN /\ Finish(NilFile, verifier, "DoNotRetry", "create", 0, FALSE, <<>>, FALSE)
                /\ verifierAtStart' = "none"
                /\ osFiles' = osFiles
           ELSE /\ Fetch([open |-> TRUE, data |-> <<>>], 0)
                /\ osFiles' = Settle(Append(osFiles, NewFile))
     ELSE
       \E seekEndErr \in BOOLEAN :
         IF seekEndErr THEN
           LET replaced == [osFiles EXCEPT ![Len(osFiles)] = closeAndRemove(@, "Download")] IN
           \E createErr \in BOOLEAN :
             IF createErr
               THEN /\ Finish(NilFile, verifier, "DoNotRetry", "create", 0, FALSE, <<>>, FALSE)
                    /\ verifierAtStart' = "none"
                    /\ osFiles' = replaced
               ELSE /\ Fetch([open |-> TRUE, data |-> <<>>],
                             offsetAfterSeekEndFailure(Len(tmpFile.data)))
                    /\ osFiles' = Settle(Append(replaced, NewFile))
         ELSE /\ Fetch(tmpFile, Len(tmpFile.data))
              /\ osFiles' = Settle(osFiles)
  /\ UNCHANGED <<pullVars, auxVars, closed>>

\* Close: the temp file, if there is one, is closed and removed
Close ==
  /\ ~closed
  /\ closed' = TRUE
  /\ tmpFile' = IF tmpFile.open THEN [tmpFile EXCEPT !.data = <<>>] ELSE tmpFile
  /\ osFiles' = IF tmpFile.open
                  THEN [osFiles EXCEPT ![Len(osFiles)] = closeAndRemove(@, "Close")]
                  ELSE osFiles
  /\ UNCHANGED <<pullVars, auxVars, verifier, attempts, offset, dlResult, dlCause, truncFailed,
                 handed, everCorrupted, verifierAtStart>>

\* the Close of a reader Download returned: the file is closed and removed
ReaderClose ==
  \E i \in 1..Len(osFiles) :
    /\ osFiles[i].owner = "reader"
    /\ osFiles[i].closedBy = <<>>
    /\ osFiles' = [osFiles EXCEPT ![i] = closeAndRemove(@, "reader")]
    /\ UNCHANGED <<pullVars, auxVars, tmpFile, verifier, attempts, offset, dlResult, dlCause,
                   truncFailed, handed, everCorrupted, closed, verifierAtStart>>

\* the pull of one scenario, to which the layer descriptor belongs
LayerScenario ==
  [goos |-> "linux", config |-> DefaultConfig, ref |-> [kind |-> "tag", tag |-> "t1", dgst |-> ""],
   store |-> [images |-> {}, refs |-> NoRefs]]

NextLayer ==
  \/ Download
  \/ Close
  \/ ReaderClose

\* ------------------------------------- pullSchema1: the layers of the manifest
S1IDs == {"a", "b", "c"}

\* the v1 image of a history entry, as far as fixManifestLayers reads it
V1Images == [ID : S1IDs, Parent : S1IDs \cup {""}]

\* the schema1 manifests of n layers, top-most layer first: a blob sum and a
\* history entry for each layer; the blob sum is named by the layer's place
\* in the manifest as received, and so is the layer a history entry is of
S1ManifestsOf(n) ==
  { [FSLayers |-> [i \in 1..n |-> i],
     History |-> [i \in 1..n |-> [ID |-> h[i].ID, Parent |-> h[i].Parent, of |-> i]]] :
    h \in [1..n -> V1Images] }

S1Manifests == UNION { S1ManifestsOf(n) : n \in 1..MaxS1Layers }

NoS1Manifest == [FSLayers |-> <<>>, History |-> <<>>]

\* append(s[:i], s[i+1:]...) for the element at place i
RemoveAt(s, i) == SubSeq(s, 1, i - 1) \o SubSeq(s, i + 1, Len(s))

\* a check for repeated IDs that finds none
repeatedNever(imgs) == FALSE

\* the check for general duplicates: some ID differs from the ID before it
\* and has appeared earlier
repeatedNonAdjacent(imgs) ==
  \E i \in 1..Len(imgs) :
    /\ imgs[i].ID # (IF i = 1 THEN "" ELSE imgs[i - 1].ID)
    /\ \E j \in 1..(i - 1) : imgs[j].ID = imgs[i].ID

\* the backwards loop of fixManifestLayers from place i on: a layer with the
\* ID of the layer below it is removed from m, any other must name that layer
\* as its parent
RECURSIVE fixLoop(_, _, _)
fixLoop(imgs, i, m) ==
  IF i < 1 THEN [err |-> "", m |-> m]
  ELSE IF imgs[i].ID = imgs[i + 1].ID
    THEN fixLoop(imgs, i - 1, [FSLayers |-> RemoveAt(m.FSLayers, i),
                               History |-> RemoveAt(m.History, i)])
  ELSE IF imgs[i].Parent # imgs[i + 1].ID
    THEN [err |-> "invalid parent ID", m |-> m]
  ELSE fixLoop(imgs, i - 1, m)

\* fixManifestLayers: the error it returns and the manifest as it leaves it
fixManifestLayers(os, m, valid) ==
  LET imgs == m.History IN
  IF ~valid THEN [err |-> "invalid V1Compatibility", m |-> m]
  ELSE IF imgs[Len(imgs)].Parent # "" /\ os # "windows"
    THEN [err |-> "invalid parent ID in the base layer of the image", m |-> m]
  ELSE IF repeatedNonAdjacent(imgs)
    THEN [err |-> "ID appears multiple times in manifest", m |-> m]
  ELSE fixLoop(imgs, Len(imgs) - 1, m)

\* a loop that makes a descriptor for every layer
keepsDescriptorAlways(isThrowAway) == TRUE

\* whether the loop of pullSchema1 makes a download descriptor for a layer
keepsDescriptor(isThrowAway) == ~isThrowAway

\* the loop of pullSchema1 over the layers from place i up to the top-most:
\* a history entry for each, a descriptor for each that is not throwaway;
\* failAt is the place at which validating the blob sum, unmarshalling or
\* HistoryFromConfig fails (0 none)
RECURSIVE buildLoop(_, _, _, _, _)
buildLoop(m, tw, i, failAt, acc) ==
  IF i < 1 THEN acc
  ELSE IF failAt = i THEN [acc EXCEPT !.err = "layer error"]
  ELSE buildLoop(m, tw, i - 1, failAt,
         [err |-> "",
          history |-> Append(acc.history, [of |-> m.History[i].of, throwAway |-> tw[i]]),
          descriptors |-> IF keepsDescriptor(tw[i])
                            THEN Append(acc.descriptors, m.FSLayers[i])
                            ELSE acc.descriptors])

InitFix(manifests) ==
  /\ s1Manifest \in manifests
  /\ s1Valid \in (IF s1Manifest = NoS1Manifest THEN {TRUE} ELSE BOOLEAN)
  /\ s1pc = IF s1Manifest = NoS1Manifest THEN "done" ELSE "fix"
  /\ verifiedManifest = s1Manifest
  /\ throwAway = <<>>
  /\ s1Err = ""
  /\ descriptors = <<>>
  /\ history = <<>>

\* pullSchema1 calls fixManifestLayers and returns its error
FixLayers ==
  /\ s1pc = "fix"
  /\ LET r == fixManifestLayers(goos, s1Manifest, s1Valid) IN
       /\ verifiedManifest' = r.m
       /\ s1Err' = r.err
       /\ s1pc' = IF r.err = "" THEN "build" ELSE "done"
  /\ UNCHANGED <<pullVars, layerVars, logsVars, ctlVars, waitVars, upgVars, sctpVars, retryVars, s1Valid, s1Manifest, throwAway, descriptors, history>>

\* pullSchema1 builds the descriptors and the history, bottom-most layer first
BuildDescriptors ==
  /\ s1pc = "build"
  /\ \E tw \in [1..Len(verifiedManifest.FSLayers) -> BOOLEAN] :
     \E failAt \in 0..Len(verifiedManifest.FSLayers) :
       LET r == buildLoop(verifiedManifest, tw, Len(verifiedManifest.FSLayers), failAt,
                          [err |-> "", history |-> <<>>, descriptors |-> <<>>]) IN
       /\ throwAway' = tw
       /\ s1Err' = r.err
       /\ descriptors' = r.descriptors
       /\ history' = r.history
  /\ s1pc' = "done"
  /\ UNCHANGED <<pullVars, layerVars, logsVars, ctlVars, waitVars, upgVars, sctpVars, retryVars, s1Valid, s1Manifest, verifiedManifest>>

\* ------------------------------------------- pullSchema2Config and retry
defaultSchemaPullBackoff == 250
defaultMaxSchemaPullAttempts == 5

\* what retryOnError can return for a call of blobs.Get: nil, or an error
\* that is or is not a DoNotRetryError
RetryErrors == {"timeout", "unexpected EOF"}
FetchResults ==
  {[err |-> "", doNotRetry |-> FALSE]} \cup [err : RetryErrors, doNotRetry : BOOLEAN]

\* a loop that goes round once more
loopContinuesOneMore(a, maxAttempts) == a <= maxAttempts

\* the condition of retry's for loop
loopContinues(a, maxAttempts) == a < maxAttempts

\* a retry that waits after every failed attempt
waitsAlways(a, maxAttempts) == TRUE

\* whether retry waits after attempt a has failed
waitsAgain(a, maxAttempts) == a + 1 < maxAttempts

InitRetry(active) ==
  /\ rpc = IF active THEN "call" ELSE "done"
  /\ cfgDgst \in (IF active THEN ConfigDigests ELSE {"c1"})
  /\ attempt = 0
  /\ sleep = defaultSchemaPullBackoff
  /\ retryCtxDone = FALSE
  /\ fetches = <<>>
  /\ slept = <<>>
  /\ woken = "none"
  /\ fetchedJSON = ""
  /\ retryErr = ""
  /\ attemptsReported = 0
  /\ cfgRet = ""

\* the end of an iteration of retry's loop: attempt++, then the loop's
\* condition; when it fails retry returns the wrapped error
RetryIterate ==
  /\ attempt' = attempt + 1
  /\ IF loopContinues(attempt + 1, defaultMaxSchemaPullAttempts)
       THEN /\ rpc' = "call"
            /\ UNCHANGED <<retryErr, attemptsReported>>
       ELSE /\ rpc' = "done"
            /\ retryErr' = "download failed after attempts"
            /\ attemptsReported' = attempt + 2

\* an iteration of retry's loop up to the timer: blobs.Get returns
RetryCall ==
  /\ rpc = "call"
  /\ \E r \in FetchResults : \E blob \in ConfigDigests :
       /\ fetches' = Append(fetches, r)
       /\ IF r.err = ""
            THEN /\ fetchedJSON' = blob
                 /\ rpc' = "verify"
                 /\ UNCHANGED <<attempt, retryErr, attemptsReported, woken>>
          ELSE IF r.doNotRetry
            THEN /\ rpc' = "done"
                 /\ retryErr' = "download failed after attempts"
                 /\ attemptsReported' = attempt + 1
                 /\ UNCHANGED <<attempt, fetchedJSON, woken>>
          ELSE IF waitsAgain(attempt, defaultMaxSchemaPullAttempts)
            THEN \* a new timer; the context may be done already
                 /\ rpc' = "sleep"
                 /\ woken' = IF retryCtxDone THEN "ctx" ELSE "none"
                 /\ UNCHANGED <<attempt, fetchedJSON, retryErr, attemptsReported>>
          ELSE /\ RetryIterate
               /\ UNCHANGED <<fetchedJSON, woken>>
  /\ UNCHANGED <<pullVars, layerVars, logsVars, ctlVars, waitVars, upgVars, sctpVars, fixVars, cfgDgst, sleep, retryCtxDone, slept, cfgRet>>

\* the timer of the select fires while retry waits and the context is not done
TimerFires ==
  /\ rpc = "sleep"
  /\ woken = "none"
  /\ woken' = "timer"
  /\ UNCHANGED <<pullVars, layerVars, logsVars, ctlVars, waitVars, upgVars, sctpVars, fixVars, rpc, cfgDgst, attempt, sleep, retryCtxDone,
                 fetches, slept, fetchedJSON, retryErr, attemptsReported, cfgRet>>

\* retry leaves its select by the case that became ready first: the context
\* is done and retry returns ctx.Err(), or the timer has fired and the sleep
\* doubles
RetryWait ==
  /\ rpc = "sleep"
  /\ woken # "none"
  /\ IF woken = "ctx"
       THEN /\ rpc' = "done"
            /\ retryErr' = "context canceled"
            /\ UNCHANGED <<attempt, sleep, slept, attemptsReported>>
       ELSE /\ slept' = Append(slept, sleep)
            /\ sleep' = sleep * 2
            /\ RetryIterate
  /\ woken' = "none"
  /\ UNCHANGED <<pullVars, layerVars, logsVars, ctlVars, waitVars, upgVars, sctpVars, fixVars, cfgDgst, retryCtxDone, fetches, fetchedJSON, cfgRet>>

\* the caller cancels the context; a retry waiting at its select with the
\* timer yet to fire is woken by it
RetryCancel ==
  /\ rpc # "done"
  /\ ~retryCtxDone
  /\ retryCtxDone' = TRUE
  /\ woken' = IF rpc = "sleep" /\ woken = "none" THEN "ctx" ELSE woken
  /\ UNCHANGED <<pullVars, layerVars, logsVars, ctlVars, waitVars, upgVars, sctpVars, fixVars, rpc, cfgDgst, attempt, sleep, fetches, slept,
                 fetchedJSON, retryErr, attemptsReported, cfgRet>>

\* pullSchema2Config after retry returned nil: the bytes are verified
ConfigVerify ==
  /\ rpc = "verify"
  /\ LET e == pullSchema2ConfigErr(cfgDgst, fetchedJSON) IN
       /\ retryErr' = e
       /\ cfgRet' = IF e = "" THEN fetchedJSON ELSE ""
  /\ rpc' = "done"
  /\ UNCHANGED <<pullVars, layerVars, logsVars, ctlVars, waitVars, upgVars, sctpVars, fixVars, cfgDgst, attempt, sleep, retryCtxDone, fetches,
                 slept, woken, fetchedJSON, attemptsReported>>

\* --------------------------------------------------------- ContainerLogs
LogMessage(n) == [line |-> n, err |-> ""]
ErrMessage == [line |-> 0, err |-> "error streaming logs"]

\* the errors ContainerLogs returns before getLogger, from getLogger, and
\* after getLogger
EarlyLogErrors == {"InvalidParameter", "GetContainer", "Conflict", "ErrReadLogsNotSupported"}
LateLogErrors == {"not a LogReader", "ParseTimestamps"}

\* a select around a send that has no case for the context
sendNeverGivesUp(done) == FALSE

\* the ctx.Done case of the select around a send is ready
sendGivesUp(done) == done

InitLogsVars(active) ==
  /\ lpc = IF active THEN "call" ELSE "idle"
  /\ logsErrRet = ""
  /\ cLogCreated = FALSE
  /\ follow = FALSE
  /\ loggerCloses = 0
  /\ consumerGone = 0
  /\ gpc = "none"
  /\ held = <<>>
  /\ messageChan = <<>>
  /\ chanClosed = FALSE
  /\ logSrc = "running"
  /\ logsMsg = <<>>
  /\ logsErr = <<>>
  /\ produced = 0
  /\ logCtxDone = FALSE
  /\ received = <<>>

\* ContainerLogs from its entry to its return; on a nil error the goroutine
\* is started
ContainerLogs ==
  /\ lpc = "call"
  /\ \E e \in {""} \cup EarlyLogErrors \cup {"getLogger"} \cup LateLogErrors :
     \E created \in BOOLEAN : \E configFollow \in BOOLEAN :
       /\ e \in EarlyLogErrors => ~created
       /\ e = "getLogger" => created
       /\ e # "" => ~configFollow
       /\ logsErrRet' = e
       /\ cLogCreated' = created
       /\ lpc' = IF e = "" THEN "returned" ELSE "failed"
       /\ loggerCloses' = IF created /\ e \in LateLogErrors THEN 1 ELSE 0
       /\ follow' = (e = "" /\ configFollow /\ ~created)
       /\ gpc' = IF e = "" THEN "select" ELSE "none"
  /\ UNCHANGED <<pullVars, layerVars, fixVars, retryVars, ctlVars, waitVars, upgVars, sctpVars, consumerGone, held, messageChan,
                 chanClosed, logSrc, logsMsg, logsErr, produced, logCtxDone, received>>

\* the log reader offers a message on logs.Msg
LogProduce ==
  /\ lpc = "returned"
  /\ logSrc = "running"
  /\ logsMsg = <<>>
  /\ produced < MaxLogMsgs
  /\ produced' = produced + 1
  /\ logsMsg' = <<LogMessage(produced + 1)>>
  /\ UNCHANGED <<pullVars, layerVars, fixVars, retryVars, ctlVars, waitVars, upgVars, sctpVars, lpc, logsErrRet, cLogCreated, follow,
                 loggerCloses, consumerGone, gpc, held, messageChan, chanClosed, logSrc,
                 logsErr, logCtxDone, received>>

\* the log reader runs out: it closes logs.Msg
LogEnd ==
  /\ lpc = "returned"
  /\ logSrc = "running"
  /\ logSrc' = "ended"
  /\ UNCHANGED <<pullVars, layerVars, fixVars, retryVars, ctlVars, waitVars, upgVars, sctpVars, lpc, logsErrRet, cLogCreated, follow,
                 loggerCloses, consumerGone, gpc, held, messageChan, chanClosed, logsMsg,
                 logsErr, produced, logCtxDone, received>>

\* the log reader reports an error on logs.Err
LogError ==
  /\ lpc = "returned"
  /\ logSrc = "running"
  /\ logSrc' = "errored"
  /\ logsErr' = <<"error streaming logs">>
  /\ UNCHANGED <<pullVars, layerVars, fixVars, retryVars, ctlVars, waitVars, upgVars, sctpVars, lpc, logsErrRet, cLogCreated, follow,
                 loggerCloses, consumerGone, gpc, held, messageChan, chanClosed, logsMsg,
                 produced, logCtxDone, received>>

\* the goroutine returns: its deferred calls close messageChan, signal
\* ConsumerGone and close a logger the call created
GoroutineReturn ==
  /\ gpc' = "exited"
  /\ held' = <<>>
  /\ chanClosed' = TRUE
  /\ consumerGone' = consumerGone + 1
  /\ loggerCloses' = IF cLogCreated THEN loggerCloses + 1 ELSE loggerCloses

\* the outer select of the goroutine
GSelect ==
  /\ gpc = "select"
  /\ \/ /\ logsErr # <<>>
        /\ logsErr' = <<>>
        /\ held' = <<ErrMessage>>
        /\ gpc' = "sendErr"
        /\ UNCHANGED <<logsMsg, messageChan, chanClosed, consumerGone, loggerCloses>>
     \/ /\ logCtxDone
        /\ GoroutineReturn
        /\ UNCHANGED <<logsMsg, logsErr, messageChan>>
     \/ /\ logsMsg # <<>>
        /\ logsMsg' = <<>>
        /\ held' = <<Head(logsMsg)>>
        /\ gpc' = "send"
        /\ UNCHANGED <<logsErr, messageChan, chanClosed, consumerGone, loggerCloses>>
     \/ /\ logsMsg = <<>>
        /\ logSrc = "ended"
        /\ GoroutineReturn
        /\ UNCHANGED <<logsMsg, logsErr, messageChan>>

\* the select around a send: the context is done, or messageChan has room
GSend ==
  /\ gpc \in {"send", "sendErr"}
  /\ \/ /\ sendGivesUp(logCtxDone)
        /\ GoroutineReturn
        /\ UNCHANGED messageChan
     \/ /\ Len(messageChan) < 1
        /\ messageChan' = Append(messageChan, Head(held))
        /\ IF gpc = "sendErr"
             THEN GoroutineReturn
             ELSE /\ gpc' = "select"
                  /\ held' = <<>>
                  /\ UNCHANGED <<chanClosed, consumerGone, loggerCloses>>
  /\ UNCHANGED <<logsMsg, logsErr>>

Goroutine ==
  /\ GSelect \/ GSend
  /\ UNCHANGED <<pullVars, layerVars, fixVars, retryVars, ctlVars, waitVars, upgVars, sctpVars, lpc, logsErrRet, cLogCreated, follow,
                 logSrc, produced, logCtxDone, received>>

\* the context of the call is cancelled
LogsCancel ==
  /\ lpc \in {"call", "returned"}
  /\ ~logCtxDone
  /\ logCtxDone' = TRUE
  /\ UNCHANGED <<pullVars, layerVars, fixVars, retryVars, ctlVars, waitVars, upgVars, sctpVars, lpc, logsErrRet, cLogCreated, follow,
                 loggerCloses, consumerGone, gpc, held, messageChan, chanClosed, logSrc,
                 logsMsg, logsErr, produced, received>>

\* the caller takes a message from the channel
Take ==
  /\ messageChan # <<>>
  /\ received' = Append(received, Head(messageChan))
  /\ messageChan' = Tail(messageChan)
  /\ UNCHANGED <<pullVars, layerVars, fixVars, retryVars, ctlVars, waitVars, upgVars, sctpVars, lpc, logsErrRet, cLogCreated, follow,
                 loggerCloses, consumerGone, gpc, held, chanClosed, logSrc, logsMsg, logsErr,
                 produced, logCtxDone>>

\* the caller receives while it has not given up on the logs
Receive == ~logCtxDone /\ Take

\* the caller receives after the context was cancelled
ReceiveLate == logCtxDone /\ Take

\* ------------------------------------------- the plugin task controller
Controllers == {"k1", "k2"}

InitCtl(active) ==
  /\ plState \in (IF active THEN {"absent", "present"} ELSE {"absent"})
  /\ plService \in (IF plState = "present" THEN {"svc", "other"} ELSE {""})
  /\ plEnabled \in (IF plState = "present" THEN BOOLEAN ELSE {FALSE})
  /\ plRefCount = 0
  /\ cpc = [k \in Controllers |-> IF active THEN "idle" ELSE "off"]
  /\ pluginID = [k \in Controllers |-> FALSE]
  /\ ctlCalls = [k \in Controllers |-> 0]
  /\ prepared = [k \in Controllers |-> FALSE]
  /\ acquires = [k \in Controllers |-> 0]
  /\ releases = [k \in Controllers |-> 0]
  /\ backendRemoves = 0

\* the deferred function of Prepare when it returns nil holding the plugin:
\* pl.Acquire()
PrepareReturnsNil(k) ==
  /\ plRefCount' = plRefCount + 1
  /\ acquires' = [acquires EXCEPT ![k] = @ + 1]
  /\ prepared' = [prepared EXCEPT ![k] = TRUE]
  /\ cpc' = [cpc EXCEPT ![k] = "idle"]

\* Prepare returns an error: nothing is acquired
PrepareReturnsErr(k) ==
  /\ cpc' = [cpc EXCEPT ![k] = "idle"]
  /\ UNCHANGED <<plRefCount, acquires, prepared>>

\* Prepare up to the call of Upgrade or Pull: the remote is parsed, the
\* plugin looked up by name; one of another service is an error, one of this
\* service is disabled if enabled (an error of Disable is only logged) and
\* its ID is kept
PrepareGet(k) ==
  /\ cpc[k] = "idle"
  /\ ctlCalls[k] < MaxCtlCalls
  /\ ctlCalls' = [ctlCalls EXCEPT ![k] = @ + 1]
  /\ \E parseErr \in BOOLEAN : \E disableErr \in BOOLEAN :
       /\ (parseErr \/ plState # "present" \/ plService # "svc" \/ ~plEnabled) => ~disableErr
       /\ IF parseErr THEN
            /\ PrepareReturnsErr(k)
            /\ UNCHANGED <<plEnabled, pluginID>>
          ELSE IF plState = "present" THEN
            IF plService # "svc" THEN
              /\ PrepareReturnsErr(k)
              /\ UNCHANGED <<plEnabled, pluginID>>
            ELSE
              /\ plEnabled' = (plEnabled /\ disableErr)
              /\ pluginID' = [pluginID EXCEPT ![k] = TRUE]
              /\ cpc' = [cpc EXCEPT ![k] = "pUpgrade"]
              /\ UNCHANGED <<plRefCount, acquires, prepared>>
          ELSE
            /\ cpc' = [cpc EXCEPT ![k] = "pPull"]
            /\ UNCHANGED <<plEnabled, pluginID, plRefCount, acquires, prepared>>
  /\ UNCHANGED <<pullVars, layerVars, fixVars, retryVars, logsVars, waitVars, upgVars, sctpVars, plState, plService,
                 releases, backendRemoves>>

\* the backend's Upgrade returns and so does Prepare
PrepareUpgrade(k) ==
  /\ cpc[k] = "pUpgrade"
  /\ \E upgradeErr \in BOOLEAN :
       /\ plState # "present" => upgradeErr
       /\ IF upgradeErr THEN PrepareReturnsErr(k) ELSE PrepareReturnsNil(k)
  /\ UNCHANGED <<pullVars, layerVars, fixVars, retryVars, logsVars, waitVars, upgVars, sctpVars, plState, plService,
                 plEnabled, pluginID, ctlCalls, releases, backendRemoves>>

\* the backend's Pull returns: the plugin is there, of this service, or
\* Prepare returns the error
PreparePull(k) ==
  /\ cpc[k] = "pPull"
  /\ \E pullFails \in BOOLEAN :
       /\ plState # "absent" => pullFails
       /\ IF pullFails
            THEN /\ PrepareReturnsErr(k)
                 /\ UNCHANGED <<plState, plService>>
            ELSE /\ plState' = "present"
                 /\ plService' = "svc"
                 /\ cpc' = [cpc EXCEPT ![k] = "pGet"]
                 /\ UNCHANGED <<plRefCount, acquires, prepared>>
  /\ UNCHANGED <<pullVars, layerVars, fixVars, retryVars, logsVars, waitVars, upgVars, sctpVars, plEnabled, pluginID,
                 ctlCalls, releases, backendRemoves>>

\* after Pull the plugin is looked up again, its ID kept, and Prepare returns
PrepareGetPulled(k) ==
  /\ cpc[k] = "pGet"
  /\ IF plState = "present"
       THEN /\ pluginID' = [pluginID EXCEPT ![k] = TRUE]
            /\ PrepareReturnsNil(k)
       ELSE /\ PrepareReturnsErr(k)
            /\ UNCHANGED pluginID
  /\ UNCHANGED <<pullVars, layerVars, fixVars, retryVars, logsVars, waitVars, upgVars, sctpVars, plState, plService,
                 plEnabled, ctlCalls, releases, backendRemoves>>

\* Remove up to the test of the reference count: the plugin is looked up by
\* p.pluginID, and released if found
RemoveGet(k) ==
  /\ cpc[k] = "idle"
  /\ ctlCalls[k] < MaxCtlCalls
  /\ ctlCalls' = [ctlCalls EXCEPT ![k] = @ + 1]
  /\ prepared' = [prepared EXCEPT ![k] = FALSE]
  /\ IF pluginID[k] /\ plState = "present"
       THEN /\ plRefCount' = plRefCount - 1
            /\ releases' = [releases EXCEPT ![k] = @ + 1]
            /\ cpc' = [cpc EXCEPT ![k] = "rCheck"]
       ELSE UNCHANGED <<plRefCount, releases, cpc>>
  /\ UNCHANGED <<pullVars, layerVars, fixVars, retryVars, logsVars, waitVars, upgVars, sctpVars, plState, plService,
                 plEnabled, pluginID, acquires, backendRemoves>>

\* Remove from the test of the reference count on: with references left it
\* returns, otherwise it calls the backend's Remove
RemoveCheck(k) ==
  /\ cpc[k] = "rCheck"
  /\ cpc' = [cpc EXCEPT ![k] = "idle"]
  /\ IF plRefCount > 0
       THEN UNCHANGED <<plState, plEnabled, backendRemoves>>
       ELSE \E removeErr \in BOOLEAN :
            /\ plState # "present" => removeErr
            /\ backendRemoves' = backendRemoves + 1
            /\ plState' = IF removeErr THEN plState ELSE "removed"
            /\ plEnabled' = (plEnabled /\ removeErr)
  /\ UNCHANGED <<pullVars, layerVars, fixVars, retryVars, logsVars, waitVars, upgVars, sctpVars, plService, plRefCount,
                 pluginID, ctlCalls, prepared, acquires, releases>>

\* ------------------------------------------- Controller.Wait
PluginEventKinds == {"EventEnable", "EventDisable", "EventRemove"}

InitWait(active) ==
  /\ wpc = IF active THEN "get" ELSE "off"
  /\ wResult = ""
  /\ specDisabled \in (IF active THEN BOOLEAN ELSE {FALSE})
  /\ wEnabled \in (IF active THEN BOOLEAN ELSE {FALSE})
  /\ wRemoved \in (IF active THEN BOOLEAN ELSE {FALSE})
  /\ wRemoved => ~wEnabled
  /\ subscribed = FALSE
  /\ wEvents = <<>>
  /\ wCtxDone = FALSE
  /\ wChanges = 0
  /\ lastEvent = ""

\* the switch on the event received: the error Wait returns, "" to go on
eventAlwaysEnds(e, disabled) ==
  CASE e = "EventEnable" -> "plugin enabled"
    [] e = "EventRemove" -> "plugin removed"
    [] OTHER -> "plugin disabled"

eventEnds(e, disabled) ==
  CASE e = "EventEnable" -> IF disabled THEN "plugin enabled" ELSE ""
    [] e = "EventRemove" -> "plugin removed"
    [] e = "EventDisable" -> IF ~disabled THEN "plugin disabled" ELSE ""
    [] OTHER -> ""

\* Wait returns err; the deferred cancel ends the subscription
WaitReturns(err) ==
  /\ wpc' = "done"
  /\ wResult' = err
  /\ subscribed' = FALSE
  /\ wEvents' = <<>>

\* the lookup of the plugin by p.pluginID
WaitGet ==
  /\ wpc = "get"
  /\ IF wRemoved
       THEN /\ WaitReturns("plugin not found")
       ELSE /\ wpc' = "subscribe"
            /\ UNCHANGED <<wResult, subscribed, wEvents>>
  /\ UNCHANGED <<pullVars, layerVars, fixVars, retryVars, logsVars, ctlVars, upgVars, sctpVars, specDisabled,
                 wEnabled, wRemoved, wCtxDone, wChanges, lastEvent>>

WaitSubscribe ==
  /\ wpc = "subscribe"
  /\ subscribed' = TRUE
  /\ wpc' = "compare"
  /\ UNCHANGED <<pullVars, layerVars, fixVars, retryVars, logsVars, ctlVars, upgVars, sctpVars, wResult,
                 specDisabled, wEnabled, wRemoved, wEvents, wCtxDone, wChanges, lastEvent>>

WaitCompare ==
  /\ wpc = "compare"
  /\ IF (~specDisabled) # wEnabled
       THEN WaitReturns("mismatched plugin state")
       ELSE /\ wpc' = "select"
            /\ UNCHANGED <<wResult, subscribed, wEvents>>
  /\ UNCHANGED <<pullVars, layerVars, fixVars, retryVars, logsVars, ctlVars, upgVars, sctpVars, specDisabled,
                 wEnabled, wRemoved, wCtxDone, wChanges, lastEvent>>

\* one round of the loop: the select takes a ready case
WaitSelect ==
  /\ wpc = "select"
  /\ \/ /\ wCtxDone
        /\ WaitReturns("context canceled")
        /\ UNCHANGED lastEvent
     \/ /\ wEvents # <<>>
        /\ lastEvent' = Head(wEvents)
        /\ IF eventEnds(Head(wEvents), specDisabled) # ""
             THEN WaitReturns(eventEnds(Head(wEvents), specDisabled))
             ELSE /\ wEvents' = Tail(wEvents)
                  /\ UNCHANGED <<wpc, wResult, subscribed>>
  /\ UNCHANGED <<pullVars, layerVars, fixVars, retryVars, logsVars, ctlVars, upgVars, sctpVars, specDisabled,
                 wEnabled, wRemoved, wCtxDone, wChanges>>

\* the plugin is enabled, disabled or removed; the event reaches a
\* subscriber whose buffer has room
PluginChanges ==
  /\ wpc # "off"
  /\ wChanges < MaxPluginEvents
  /\ ~wRemoved
  /\ wChanges' = wChanges + 1
  /\ \E e \in PluginEventKinds :
       /\ e = "EventEnable" => ~wEnabled
       /\ e = "EventDisable" => wEnabled
       /\ wEnabled' = (e = "EventEnable")
       /\ wRemoved' = (e = "EventRemove")
       /\ wEvents' = IF subscribed /\ Len(wEvents) < waitEventBuffer
                       THEN Append(wEvents, e) ELSE wEvents
  /\ UNCHANGED <<pullVars, layerVars, fixVars, retryVars, logsVars, ctlVars, upgVars, sctpVars, wpc, wResult,
                 specDisabled, subscribed, wCtxDone, lastEvent>>

WaitCancel ==
  /\ wpc \notin {"off", "done"}
  /\ ~wCtxDone
  /\ wCtxDone' = TRUE
  /\ UNCHANGED <<pullVars, layerVars, fixVars, retryVars, logsVars, ctlVars, upgVars, sctpVars, wpc, wResult,
                 specDisabled, wEnabled, wRemoved, subscribed, wEvents, wChanges, lastEvent>>

\* ------------------------------------------- Manager.upgradePlugin
\* the digests and the config the plugin has before the call
OldDigest == "d0"
OldBlobsums == <<"d0">>
OldObjConfig == "config of d0"

PluginDigests == {"d0", "d1", "d2"}

\* the config setupNewPlugin reads from the blob of a digest
ConfigOf(dgst) == "config of " \o dgst

InitUpgrade(active) ==
  /\ upc = IF active THEN "setup" ELSE "off"
  /\ origDir = "old"
  /\ backupDir = "none"
  /\ tmpDir = "new"
  /\ pluginConfig = OldDigest
  /\ pluginBlobsums = OldBlobsums
  /\ pluginManifest = OldDigest
  /\ pluginObjConfig = OldObjConfig
  /\ savedObjConfig = OldObjConfig
  /\ inConfigDigest \in (IF active THEN PluginDigests ELSE {OldDigest})
  /\ inBlobsums \in (IF active THEN {<<d>> : d \in PluginDigests} ELSE {OldBlobsums})
  /\ inManifestDigest \in (IF active THEN PluginDigests ELSE {OldDigest})
  /\ upRetErr = ""

\* upgradePlugin returns before the deferred function is registered
UpgradeReturnsEarly(err) ==
  /\ upc' = "done"
  /\ upRetErr' = err

\* setupNewPlugin
UpgradeSetup ==
  /\ upc = "setup"
  /\ \E fails \in BOOLEAN :
       IF fails THEN UpgradeReturnsEarly("setupNewPlugin")
                ELSE upc' = "unmount" /\ UNCHANGED upRetErr
  /\ UNCHANGED <<pullVars, layerVars, fixVars, retryVars, logsVars, ctlVars, waitVars, sctpVars,
                 origDir, backupDir, tmpDir, pluginConfig, pluginBlobsums, pluginManifest,
                 pluginObjConfig, savedObjConfig, inConfigDigest, inBlobsums,
                 inManifestDigest>>

\* mount.RecursiveUnmount(orig)
UpgradeUnmount ==
  /\ upc = "unmount"
  /\ \E fails \in BOOLEAN :
       IF fails THEN UpgradeReturnsEarly("unmount")
                ELSE upc' = "backup" /\ UNCHANGED upRetErr
  /\ UNCHANGED <<pullVars, layerVars, fixVars, retryVars, logsVars, ctlVars, waitVars, sctpVars,
                 origDir, backupDir, tmpDir, pluginConfig, pluginBlobsums, pluginManifest,
                 pluginObjConfig, savedObjConfig, inConfigDigest, inBlobsums,
                 inManifestDigest>>

\* os.Rename(orig, backup)
UpgradeBackup ==
  /\ upc = "backup"
  /\ \E fails \in BOOLEAN :
       IF fails
         THEN /\ UpgradeReturnsEarly("error backing up plugin data before upgrade")
              /\ UNCHANGED <<origDir, backupDir>>
         ELSE /\ backupDir' = origDir
              /\ origDir' = "none"
              /\ upc' = "rename"
              /\ UNCHANGED upRetErr
  /\ UNCHANGED <<pullVars, layerVars, fixVars, retryVars, logsVars, ctlVars, waitVars, sctpVars,
                 tmpDir, pluginConfig, pluginBlobsums, pluginManifest, pluginObjConfig,
                 savedObjConfig, inConfigDigest, inBlobsums, inManifestDigest>>

\* os.Rename(tmpRootFSDir, orig)
UpgradeRename ==
  /\ upc = "rename"
  /\ \E fails \in BOOLEAN :
       IF fails
         THEN /\ upRetErr' = "error upgrading"
              /\ upc' = "deferred"
              /\ UNCHANGED <<origDir, tmpDir>>
         ELSE /\ origDir' = tmpDir
              /\ tmpDir' = "none"
              /\ upc' = "save"
              /\ UNCHANGED upRetErr
  /\ UNCHANGED <<pullVars, layerVars, fixVars, retryVars, logsVars, ctlVars, waitVars, sctpVars,
                 backupDir, pluginConfig, pluginBlobsums, pluginManifest, pluginObjConfig,
                 savedObjConfig, inConfigDigest, inBlobsums, inManifestDigest>>

\* p.PluginObj.Config and p.Manifest are set, then pm.save(p)
UpgradeSave ==
  /\ upc = "save"
  /\ pluginObjConfig' = ConfigOf(inConfigDigest)
  /\ pluginManifest' = inManifestDigest
  /\ \E saveFails \in BOOLEAN :
       /\ savedObjConfig' = IF saveFails THEN savedObjConfig ELSE ConfigOf(inConfigDigest)
       /\ upRetErr' = IF saveFails THEN "error saving upgraded plugin config" ELSE ""
  /\ upc' = "deferred"
  /\ UNCHANGED <<pullVars, layerVars, fixVars, retryVars, logsVars, ctlVars, waitVars, sctpVars,
                 origDir, backupDir, tmpDir, pluginConfig, pluginBlobsums, inConfigDigest,
                 inBlobsums, inManifestDigest>>

\* the deferred function: after an error orig is removed and the backup
\* renamed back, after success the backup is removed and p.Config and
\* p.Blobsums are set
UpgradeDeferred ==
  /\ upc = "deferred"
  /\ upc' = "done"
  /\ IF upRetErr # "" THEN
       \E removeFails \in BOOLEAN : \E renameFails \in BOOLEAN :
         /\ removeFails => ~renameFails
         /\ IF removeFails THEN
              UNCHANGED <<origDir, backupDir, tmpDir, upRetErr>>
            ELSE
              /\ origDir' = IF renameFails THEN "none" ELSE backupDir
              /\ backupDir' = IF renameFails THEN backupDir ELSE "none"
              /\ upRetErr' = IF renameFails
                               THEN "error restoring old plugin root on upgrade failure"
                               ELSE upRetErr
              /\ tmpDir' \in {tmpDir, "none"}
         /\ UNCHANGED <<pluginConfig, pluginBlobsums>>
     ELSE
       /\ backupDir' \in {backupDir, "none"}
       /\ pluginConfig' = inConfigDigest
       /\ pluginBlobsums' = inBlobsums
       /\ UNCHANGED <<origDir, tmpDir, upRetErr>>
  /\ UNCHANGED <<pullVars, layerVars, fixVars, retryVars, logsVars, ctlVars, waitVars, sctpVars,
                 pluginManifest, pluginObjConfig, savedObjConfig, inConfigDigest, inBlobsums,
                 inManifestDigest>>

\* ------------------------------------------- SCTPProxy
Clients == 1..MaxClients

\* the two copy goroutines of a clientLoop, named by where they copy to
Brokers == {"toClient", "toBackend"}

InitSctp(active) ==
  /\ runPc = IF active THEN "accept" ELSE "off"
  /\ listenerClosed = FALSE
  /\ quitClosed = FALSE
  /\ accepted = 0
  /\ clPc = [c \in Clients |-> "none"]
  /\ clientConn = [c \in Clients |-> "none"]
  /\ backendConn = [c \in Clients |-> "none"]
  /\ broker = [c \in Clients |-> [b \in Brokers |-> "none"]]
  /\ wg = [c \in Clients |-> 0]
  /\ finish = [c \in Clients |-> FALSE]
  /\ waiter = [c \in Clients |-> "none"]
  /\ tookQuit = [c \in Clients |-> FALSE]

\* Run accepts a connection and starts its clientLoop
Accept ==
  /\ runPc = "accept"
  /\ ~listenerClosed
  /\ accepted < MaxClients
  /\ accepted' = accepted + 1
  /\ clientConn' = [clientConn EXCEPT ![accepted + 1] = "open"]
  /\ clPc' = [clPc EXCEPT ![accepted + 1] = "dial"]
  /\ UNCHANGED <<pullVars, layerVars, fixVars, retryVars, logsVars, ctlVars, waitVars, upgVars,
                 runPc, listenerClosed, quitClosed, backendConn, broker, wg, finish, waiter,
                 tookQuit>>

\* Accept returns an error, Run returns and its deferred close(quit) runs
AcceptFails ==
  /\ runPc = "accept"
  /\ listenerClosed
  /\ runPc' = "exited"
  /\ quitClosed' = TRUE
  /\ UNCHANGED <<pullVars, layerVars, fixVars, retryVars, logsVars, ctlVars, waitVars, upgVars,
                 listenerClosed, accepted, clPc, clientConn, backendConn, broker, wg, finish,
                 waiter, tookQuit>>

\* SCTPProxy.Close
ProxyClose ==
  /\ runPc = "accept"
  /\ ~listenerClosed
  /\ listenerClosed' = TRUE
  /\ UNCHANGED <<pullVars, layerVars, fixVars, retryVars, logsVars, ctlVars, waitVars, upgVars,
                 runPc, quitClosed, accepted, clPc, clientConn, backendConn, broker, wg, finish,
                 waiter, tookQuit>>

\* clientLoop dials the backend: on an error it closes the client and
\* returns, otherwise it starts the two copy goroutines and the one that
\* waits for them
Dial(c) ==
  /\ clPc[c] = "dial"
  /\ \E dialErr \in BOOLEAN :
       IF dialErr
         THEN /\ clientConn' = [clientConn EXCEPT ![c] = "closed"]
              /\ clPc' = [clPc EXCEPT ![c] = "returned"]
              /\ UNCHANGED <<backendConn, broker, wg, waiter>>
         ELSE /\ backendConn' = [backendConn EXCEPT ![c] = "open"]
              /\ wg' = [wg EXCEPT ![c] = 2]
              /\ broker' = [broker EXCEPT ![c] = [b \in Brokers |-> "copy"]]
              /\ waiter' = [waiter EXCEPT ![c] = "wait"]
              /\ clPc' = [clPc EXCEPT ![c] = "select"]
              /\ UNCHANGED clientConn
  /\ UNCHANGED <<pullVars, layerVars, fixVars, retryVars, logsVars, ctlVars, waitVars, upgVars,
                 runPc, listenerClosed, quitClosed, accepted, finish, tookQuit>>

\* the select on quit and finish
Select(c) ==
  /\ clPc[c] = "select"
  /\ \/ quitClosed /\ tookQuit' = [tookQuit EXCEPT ![c] = TRUE]
     \/ finish[c] /\ UNCHANGED tookQuit
  /\ clPc' = [clPc EXCEPT ![c] = "close"]
  /\ UNCHANGED <<pullVars, layerVars, fixVars, retryVars, logsVars, ctlVars, waitVars, upgVars,
                 runPc, listenerClosed, quitClosed, accepted, clientConn, backendConn, broker,
                 wg, finish, waiter>>

ClosesNothing(c) ==
  /\ clPc[c] = "close"
  /\ clPc' = [clPc EXCEPT ![c] = "finish"]
  /\ UNCHANGED <<pullVars, layerVars, fixVars, retryVars, logsVars, ctlVars, waitVars, upgVars,
                 runPc, listenerClosed, quitClosed, accepted, clientConn, backendConn, broker,
                 wg, finish, waiter, tookQuit>>

\* clientC.Close() and backendC.Close()
ClosesConns(c) ==
  /\ clPc[c] = "close"
  /\ clientConn' = [clientConn EXCEPT ![c] = "closed"]
  /\ backendConn' = [backendConn EXCEPT ![c] = "closed"]
  /\ clPc' = [clPc EXCEPT ![c] = "finish"]
  /\ UNCHANGED <<pullVars, layerVars, fixVars, retryVars, logsVars, ctlVars, waitVars, upgVars,
                 runPc, listenerClosed, quitClosed, accepted, broker, wg, finish, waiter,
                 tookQuit>>

\* the last receive from finish, and the return
AwaitFinish(c) ==
  /\ clPc[c] = "finish"
  /\ finish[c]
  /\ clPc' = [clPc EXCEPT ![c] = "returned"]
  /\ UNCHANGED <<pullVars, layerVars, fixVars, retryVars, logsVars, ctlVars, waitVars, upgVars,
                 runPc, listenerClosed, quitClosed, accepted, clientConn, backendConn, broker,
                 wg, finish, waiter, tookQuit>>

\* the connection a copy goroutine reads from
FromConn(c, b) == IF b = "toClient" THEN backendConn[c] ELSE clientConn[c]

BrokerMoves(c, b, from, to) ==
  /\ broker[c][b] = from
  /\ broker' = [broker EXCEPT ![c][b] = to]

\* io.Copy returns because the connection it reads from was closed here
CopyFails(c, b) ==
  /\ FromConn(c, b) = "closed"
  /\ BrokerMoves(c, b, "copy", "close")
  /\ UNCHANGED <<pullVars, layerVars, fixVars, retryVars, logsVars, ctlVars, waitVars, upgVars,
                 runPc, listenerClosed, quitClosed, accepted, clPc, clientConn, backendConn,
                 wg, finish, waiter, tookQuit>>

\* io.Copy returns because the peer ended the stream or a write failed
CopyEnds(c, b) ==
  /\ FromConn(c, b) = "open"
  /\ BrokerMoves(c, b, "copy", "close")
  /\ UNCHANGED <<pullVars, layerVars, fixVars, retryVars, logsVars, ctlVars, waitVars, upgVars,
                 runPc, listenerClosed, quitClosed, accepted, clPc, clientConn, backendConn,
                 wg, finish, waiter, tookQuit>>

\* from.Close() and to.Close()
BrokerCloses(c, b) ==
  /\ BrokerMoves(c, b, "close", "closed")
  /\ clientConn' = [clientConn EXCEPT ![c] = "closed"]
  /\ backendConn' = [backendConn EXCEPT ![c] = "closed"]
  /\ UNCHANGED <<pullVars, layerVars, fixVars, retryVars, logsVars, ctlVars, waitVars, upgVars,
                 runPc, listenerClosed, quitClosed, accepted, clPc, wg, finish, waiter,
                 tookQuit>>

\* wg.Done(), the goroutine's last statement
BrokerDone(c, b) ==
  /\ BrokerMoves(c, b, "closed", "done")
  /\ wg' = [wg EXCEPT ![c] = @ - 1]
  /\ UNCHANGED <<pullVars, layerVars, fixVars, retryVars, logsVars, ctlVars, waitVars, upgVars,
                 runPc, listenerClosed, quitClosed, accepted, clPc, clientConn, backendConn,
                 finish, waiter, tookQuit>>

\* wg.Wait() returns and finish is closed
WaiterWakes(c) ==
  /\ waiter[c] = "wait"
  /\ wg[c] = 0
  /\ finish' = [finish EXCEPT ![c] = TRUE]
  /\ waiter' = [waiter EXCEPT ![c] = "done"]
  /\ UNCHANGED <<pullVars, layerVars, fixVars, retryVars, logsVars, ctlVars, waitVars, upgVars,
                 runPc, listenerClosed, quitClosed, accepted, clPc, clientConn, backendConn,
                 broker, wg, tookQuit>>

\* ------------------------------------------------------------ specifications
NextPull ==
  \/ PullBegin
  \/ PullRepository
  \/ TagsLoop
  \/ PullTagFetch
  \/ PullTagReturn
  \/ S2Begin
  \/ ConfigFetch
  \/ ConfigCancel
  \/ LayerDownload
  \/ S2WaitConfig
  \/ S2Drain
  \/ S2WinWait
  \/ S2Join
  \/ S1Verify
  \/ S1Download
  \/ MlBegin
  \/ MlNext
  \/ ListRet
  \/ Reconcile

vars == <<pullVars, layerVars, auxVars>>

Init == InitPullIn(Scenarios) /\ InitLayer /\ InitFix({NoS1Manifest}) /\ InitRetry(FALSE) /\ InitLogsVars(FALSE) /\ InitCtl(FALSE) /\ InitWait(FALSE) /\ InitUpgrade(FALSE) /\ InitSctp(FALSE)

Next == NextPull

Spec == Init /\ [][Next]_vars

InitDownload ==
  InitPullIn({LayerScenario}) /\ InitLayer /\ InitFix({NoS1Manifest}) /\ InitRetry(FALSE) /\ InitLogsVars(FALSE) /\ InitCtl(FALSE) /\ InitWait(FALSE) /\ InitUpgrade(FALSE) /\ InitSctp(FALSE)

\* pullSchema1 from fixManifestLayers to the call of Download, for every
\* schema1 manifest of at most MaxS1Layers layers, on Linux and on Windows
InitSchema1 ==
  /\ InitPullIn({LayerScenario, [LayerScenario EXCEPT !.goos = "windows"]})
  /\ InitLayer
  /\ InitFix(S1Manifests)
  /\ InitRetry(FALSE) /\ InitLogsVars(FALSE) /\ InitCtl(FALSE) /\ InitWait(FALSE) /\ InitUpgrade(FALSE) /\ InitSctp(FALSE)

NextSchema1 ==
  \/ FixLayers
  \/ BuildDescriptors

SpecSchema1 == InitSchema1 /\ [][NextSchema1]_vars

\* one call of pullSchema2Config, for each digest
InitConfigFetch ==
  /\ InitPullIn({LayerScenario})
  /\ InitLayer
  /\ InitFix({NoS1Manifest})
  /\ InitRetry(TRUE)
  /\ InitLogsVars(FALSE) /\ InitCtl(FALSE) /\ InitWait(FALSE) /\ InitUpgrade(FALSE) /\ InitSctp(FALSE)

NextConfigFetch ==
  \/ RetryCall
  \/ TimerFires
  \/ RetryWait
  \/ RetryCancel
  \/ ConfigVerify

SpecConfigFetch == InitConfigFetch /\ [][NextConfigFetch]_vars

\* one call of ContainerLogs, its goroutine, the log reader and the caller
InitLogs ==
  /\ InitPullIn({LayerScenario})
  /\ InitLayer
  /\ InitFix({NoS1Manifest})
  /\ InitRetry(FALSE)
  /\ InitLogsVars(TRUE)
  /\ InitCtl(FALSE) /\ InitWait(FALSE) /\ InitUpgrade(FALSE) /\ InitSctp(FALSE)

NextLogs ==
  \/ ContainerLogs
  \/ LogProduce
  \/ LogEnd
  \/ LogError
  \/ Goroutine
  \/ LogsCancel
  \/ Receive
  \/ ReceiveLate

\* the goroutine runs whenever a case of its select is ready; the caller goes
\* on receiving for as long as it has not cancelled the context
SpecLogs ==
  /\ InitLogs
  /\ [][NextLogs]_vars
  /\ WF_vars(Goroutine)
  /\ WF_vars(Receive)

SpecDownload == InitDownload /\ [][NextLayer]_vars

\* two task controllers of one service and the plugin they share
InitPlugin ==
  /\ InitPullIn({LayerScenario})
  /\ InitLayer
  /\ InitFix({NoS1Manifest})
  /\ InitRetry(FALSE)
  /\ InitLogsVars(FALSE)
  /\ InitCtl(TRUE)
  /\ InitWait(FALSE) /\ InitUpgrade(FALSE) /\ InitSctp(FALSE)

NextPlugin == \E k \in Controllers :
  \/ PrepareGet(k)
  \/ PrepareUpgrade(k)
  \/ PreparePull(k)
  \/ PrepareGetPulled(k)
  \/ RemoveGet(k)
  \/ RemoveCheck(k)

SpecPlugin == InitPlugin /\ [][NextPlugin]_vars

\* one controller in Wait while the plugin changes
InitWaiting ==
  /\ InitPullIn({LayerScenario})
  /\ InitLayer
  /\ InitFix({NoS1Manifest})
  /\ InitRetry(FALSE)
  /\ InitLogsVars(FALSE)
  /\ InitCtl(FALSE)
  /\ InitWait(TRUE)
  /\ InitUpgrade(FALSE) /\ InitSctp(FALSE)

NextWait ==
  \/ WaitGet
  \/ WaitSubscribe
  \/ WaitCompare
  \/ WaitSelect
  \/ PluginChanges
  \/ WaitCancel

SpecWait == InitWaiting /\ [][NextWait]_vars

\* one call of upgradePlugin
InitUpgrading ==
  /\ InitPullIn({LayerScenario})
  /\ InitLayer
  /\ InitFix({NoS1Manifest})
  /\ InitRetry(FALSE)
  /\ InitLogsVars(FALSE)
  /\ InitCtl(FALSE)
  /\ InitWait(FALSE)
  /\ InitUpgrade(TRUE)
  /\ InitSctp(FALSE)

NextUpgrade ==
  \/ UpgradeSetup
  \/ UpgradeUnmount
  \/ UpgradeBackup
  \/ UpgradeRename
  \/ UpgradeSave
  \/ UpgradeDeferred

SpecUpgrade == InitUpgrading /\ [][NextUpgrade]_vars

\* the SCTP proxy: Run, its clientLoops and their goroutines, every
\* goroutine that can take a step taking one in the end
InitProxy ==
  /\ InitPullIn({LayerScenario})
  /\ InitLayer
  /\ InitFix({NoS1Manifest})
  /\ InitRetry(FALSE)
  /\ InitLogsVars(FALSE)
  /\ InitCtl(FALSE)
  /\ InitWait(FALSE)
  /\ InitUpgrade(FALSE)
  /\ InitSctp(TRUE)

ClientLoopStep(c) == Dial(c) \/ Select(c) \/ ClosesConns(c) \/ AwaitFinish(c)

BrokerStep(c, b) == CopyFails(c, b) \/ BrokerCloses(c, b) \/ BrokerDone(c, b)

NextProxy ==
  \/ Accept
  \/ AcceptFails
  \/ ProxyClose
  \/ \E c \in Clients : ClientLoopStep(c)
  \/ \E c \in Clients : \E b \in Brokers : BrokerStep(c, b)
  \/ \E c \in Clients : \E b \in Brokers : CopyEnds(c, b)
  \/ \E c \in Clients : WaiterWakes(c)

SpecProxy ==
  /\ InitProxy
  /\ [][NextProxy]_vars
  /\ WF_vars(AcceptFails)
  /\ \A c \in Clients : WF_vars(ClientLoopStep(c))
  /\ \A c \in Clients : \A b \in Brokers : WF_vars(BrokerStep(c, b))
  /\ \A c \in Clients : WF_vars(WaiterWakes(c))

\* the steps pullSchema2Layers itself takes at its selects
S2Main == S2WaitConfig \/ S2Drain \/ S2WinWait \/ S2Join

\* the pulls by name and by tag from an empty store, with and without a
\* download manager, on each operating system
FairScenarios ==
  [goos : {"linux", "windows"},
   config : {DefaultConfig, [DefaultConfig EXCEPT !.hasDM = FALSE]},
   ref : { r \in Refs : r.kind \in {"name", "tag"} },
   store : {[images |-> {}, refs |-> NoRefs]}]

InitFair ==
  /\ InitPullIn(FairScenarios)
  /\ InitLayer
  /\ InitFix({NoS1Manifest})
  /\ InitRetry(FALSE)
  /\ InitLogsVars(FALSE) /\ InitCtl(FALSE) /\ InitWait(FALSE) /\ InitUpgrade(FALSE) /\ InitSctp(FALSE)

\* those pulls, in which pullSchema2Layers goes on whenever a case of the
\* select it waits at is ready, and the config goroutine goes on to its
\* cancel once it has sent its error
SpecFair ==
  /\ InitFair
  /\ [][Next]_vars
  /\ WF_vars(S2Main)
  /\ WF_vars(ConfigCancel)

\* --------------------------------------------------------------- properties
\* an image puller (pullSchema1, pullSchema2, pullOCI) has just returned
ImageReturned == pc \in {"listRet", "reconcile", "tagRet"} /\ retKind = "image"

\* C1: when Download returned a rootfs and the config was received, a
\* schema2/OCI pull that succeeds has a downloaded diff-ID sequence of the
\* config's length and equal to it at every position; if the two differ in
\* length or at a position, pullSchema2Layers returns errRootFSMismatch and
\* ImageStore.Put has not been called
C1_RootFSCrossCheck ==
  (ImageReturned /\ ~downloadedRootFS.nil /\ configJSON # NoConfig) =>
    LET d == downloadedRootFS.diffIDs
        c == configJSON.diffIDs
        same == Len(d) = Len(c) /\ \A i \in 1..Len(d) : d[i] = c[i]
    IN /\ retErr = "" => same
       /\ ~same => retErr = "errRootFSMismatch" /\ putCalls = 0 /\ retId = ""

\* C1: a pull whose downloaded diff IDs have the config's length but differ
\* at a position has returned
C1_Witness ==
  /\ ImageReturned
  /\ ~downloadedRootFS.nil
  /\ configJSON # NoConfig
  /\ Len(downloadedRootFS.diffIDs) = Len(configJSON.diffIDs)
  /\ downloadedRootFS.diffIDs # configJSON.diffIDs
  /\ retErr = "errRootFSMismatch"

\* C2: when pull returns an error, the image store and the reference store
\* hold what they held when pull was called
C2_FailedPullLeavesStores ==
  (pc = "done" /\ pullErr # "") => (imageStore = imageStore0 /\ refStore = refStore0)

\* C3: when pullTag returns for a tag reference, the reference store either
\* is as it was when pullTag was called or holds both the digest association
\* and the tag association of the image pulled
C3_ReferencesAtomic ==
  (pc = "tagRet" /\ IsTagged(curRef) /\ retId # "" /\ refStore # refStoreT) =>
    (refStore[manifestDigest] = retId /\ refStore[curRef.tag] = retId)

\* C4: when a schema puller returns, release has been called once for each
\* Download call that returned successfully in it
C4_ReleaseExactlyOnce == ImageReturned => releaseCalls = dlReturned

\* C5: a config fetch that has failed has cancelled the context; a failed
\* layer download has not cancelled it while the config fetch runs; and when
\* both have failed the error returned is the config error
C5_ConfigErrorPreferred ==
  /\ cfgG = "failed" => ctxCancelled
  /\ (pc = "s2WaitCfg" /\ dlG = "failed" /\ cfgG = "run") => ~ctxCancelled
  /\ (ImageReturned /\ cfgG \in {"sentErr", "failed"} /\ dlG = "failed")
       => retErr = "imageConfigPullError"

\* C5: pullSchema2Layers has returned after both the config fetch and the
\* layer download failed
C5_Witness ==
  /\ ImageReturned
  /\ cfgG = "failed"
  /\ dlG = "failed"
  /\ retErr = "imageConfigPullError"

\* C6: when a nested pullManifestList returns noMatchesErr the loop goes on
\* to the next match; when it returns another error, the list returns that
\* error and tries no further match
C6_NestedNoMatchesContinues ==
  [][(pc = "listRet" /\ retKind = "list" /\ retErr # "" /\ pc' # pc) =>
       IF retErr = "noMatchesErr" THEN pc' = "ml"
       ELSE pc' # "ml" /\ retErr' = retErr]_vars

\* C7: a manifest pulled under a digest has been verified against it before
\* its config is fetched, its layers are downloaded, its image is put or the
\* reference store is updated; and a pullTag by digest in which a manifest
\* has failed the verification returns an error
C7_DigestVerifiedFirst ==
  /\ (IsCanonical(mref) /\ pc \in {"s2WaitCfg", "s2WinWait", "s2Drain", "s2Join",
                                   "s1Download"}) => verified
  /\ (IsCanonical(mref) /\ (cfgG # "idle" \/ dlG # "idle")) => verified
  /\ (IsCanonical(curRef) /\ stack # <<>>) => manifestDigest = curRef.dgst
  /\ (IsCanonical(curRef) /\ refStore # refStoreT) => manifestDigest = curRef.dgst
  /\ (IsCanonical(curRef) /\ mismatch /\ pc \in {"reconcile", "tagRet"}) => retErr # ""

\* C8: the reference store changes only in the last step of pullTag, after
\* the schema puller returned the ID of an image in the image store without
\* error; the image store changes only in a schema puller, after the
\* manifest's verification, and in pullSchema2Layers only by the config
\* whose digest is the target's and whose diff IDs are the downloaded ones
C8_StoreOrder ==
  [][/\ refStore' # refStore =>
          (pc = "reconcile" /\ retErr = "" /\ retId \in imageStore /\ pc' = "tagRet")
     /\ imageStore' # imageStore =>
          /\ pc \in {"s2Join", "s1Download"}
          /\ refStore = refStoreT
          /\ IsCanonical(mref) => verified
          /\ pc = "s2Join" =>
               /\ configJSON.dgst = target
               /\ imageStore' = imageStore \cup {target}
               /\ downloadedRootFS.nil \/ downloadedRootFS.diffIDs = configJSON.diffIDs]_vars

\* C8: a pullTag that put an image and then updated the reference store has
\* returned
C8_Witness ==
  /\ pc = "tagRet"
  /\ retErr = ""
  /\ refStore # refStoreT
  /\ imageStore # imageStore0

\* C9 as stated: a verification failure after a transfer that started at a
\* non-zero offset leaves the temp file empty and the verifier dropped and
\* returns a retryable error; at offset 0 it returns DoNotRetry
C9_VerifyFailureRestarts ==
  dlCause = "verify" =>
    IF offset # 0
      THEN verifier.nil /\ tmpFile.data = <<>> /\ dlResult = "retry"
      ELSE dlResult = "DoNotRetry"

\* C9, amended: a verification failure after a transfer that started at a
\* non-zero offset drops the verifier and, unless truncating the temp file
\* fails, empties the file and returns a retryable error; if truncating
\* fails it returns DoNotRetry; at offset 0 it returns DoNotRetry
C9_VerifyFailureAmended ==
  dlCause = "verify" =>
    IF offset # 0
      THEN /\ verifier.nil
           /\ IF truncFailed THEN dlResult = "DoNotRetry"
              ELSE tmpFile.data = <<>> /\ dlResult = "retry"
      ELSE dlResult = "DoNotRetry"

\* C9: a resumed transfer has failed verification and the file was truncated
C9_Witness ==
  /\ dlCause = "verify"
  /\ offset # 0
  /\ ~truncFailed
  /\ dlResult = "retry"

\* C10: with a registry that serves the blob, the file a successful
\* Download hands over, after whatever attempts before it, is the blob
C10_ResumeByteIdentical ==
  (dlResult = "ok" /\ ~everCorrupted) => handed = Blob

\* C10: a Download that resumed at a non-zero offset after an interrupted
\* attempt has succeeded
C10_Witness ==
  /\ dlResult = "ok"
  /\ ~everCorrupted
  /\ offset # 0
  /\ attempts > 1

\* C11: after a successful Download the descriptor holds no temp file and
\* the file it wrote is the returned reader's, at position 0; a file handed
\* to a reader is never closed or removed by the descriptor's Close or by
\* Download, and is closed and removed at most once, by the reader's Close
C11_HandOffOnce ==
  /\ dlResult = "ok" =>
       /\ ~tmpFile.open
       /\ osFiles # <<>>
       /\ osFiles[Len(osFiles)].owner = "reader"
       /\ osFiles[Len(osFiles)].pos = 0
  /\ \A i \in 1..Len(osFiles) :
       osFiles[i].owner = "reader" =>
         /\ osFiles[i].closedBy \in {<<>>, <<"reader">>}
         /\ osFiles[i].removedBy = osFiles[i].closedBy

\* C11: a Download has succeeded, the descriptor has been closed after it,
\* and the file handed over is still open
C11_Witness ==
  /\ dlResult = "ok"
  /\ closed
  /\ osFiles[Len(osFiles)].owner = "reader"
  /\ osFiles[Len(osFiles)].closedBy = <<>>

\* every temp file handed to a reader has been closed by it
ReadersClosed ==
  \A i \in 1..Len(osFiles) : osFiles[i].owner = "reader" => osFiles[i].closedBy # <<>>

C13_ByteRangeRestarts ==
  (dlCause = "byteRange" \/ (dlCause \in {"seek", "restoreSeek"} /\ offset # 0)) =>
    (verifier.nil /\ tmpFile.data = <<>> /\ dlResult = "retry")

\* C13, amended: after ErrWrongCodeForByteRange, or after the first seek of
\* the remote stream to the resume offset failed, the verifier is dropped
\* and, unless truncating the temp file fails, the file is empty and the
\* error returned retryable; if truncating fails the error is DoNotRetry;
\* after a failure of the seek that restores the offset once the size is
\* known, the error is retryable and the file keeps its offset bytes
C13_ByteRangeAmended ==
  /\ dlCause \in {"byteRange", "seek"} =>
       /\ verifier.nil
       /\ IF truncFailed THEN dlResult = "DoNotRetry"
          ELSE tmpFile.data = <<>> /\ dlResult = "retry"
  /\ dlCause = "seek" => offset # 0
  /\ dlCause = "restoreSeek" =>
       (dlResult = "retry" /\ ~truncFailed /\ (~closed => Len(tmpFile.data) = offset))

\* C13: a resumed transfer has ended with ErrWrongCodeForByteRange and the
\* file was truncated
C13_Witness ==
  /\ dlCause = "byteRange"
  /\ offset # 0
  /\ ~truncFailed
  /\ dlResult = "retry"
  /\ tmpFile.data = <<>>

\* C14: when pullTag, pulling a tag, finds that the reference store
\* associates the tag with the image ID pulled, it does not call AddTag, the
\* only mutator it calls is addDigestReference, the store changes in nothing
\* but the digest association, and pullTag returns false; pullRepository then
\* writes the status "Image is up to date" for a tag reference
C14_SameImageNoRetag ==
  [][/\ (/\ pc = "reconcile"
         /\ pc' = "tagRet"
         /\ IsTagged(curRef)
         /\ config.hasRefStore
         /\ refStore[curRef.tag] = retId
         /\ retErr' # "ReferenceStore.Get error") =>
          /\ tagUpdated' = FALSE
          /\ refOps' = <<"addDigestReference">>
          /\ refStore'[curRef.tag] = refStore[curRef.tag]
          /\ retErr' = "" => refStore' = [refStore EXCEPT ![manifestDigest] = retId]
          /\ retErr' # "" => refStore' = refStore
     /\ (pc = "tagRet" /\ retErr = "" /\ ~tagUpdated /\ IsTagged(ref)) =>
          status' = Append(status, "Image is up to date")]_vars

\* C14: a pullTag of a tag already associated with the image pulled has
\* returned, having added the digest association
C14_Witness ==
  /\ pc = "tagRet"
  /\ IsTagged(curRef)
  /\ retErr = ""
  /\ refOps = <<"addDigestReference">>
  /\ refStoreT[curRef.tag] = retId
  /\ refStore # refStoreT

\* C15: when the reference store maps the reference to another image ID or
\* to none, a pullTag that succeeds leaves the digest association and, for a
\* tag reference, the tag association on the image ID pulled, changes no
\* other association, and returns true; an error of ReferenceStore.Get
\* other than ErrDoesNotExist is returned with no mutator called
C15_NewImageAssociated ==
  [][(pc = "reconcile" /\ pc' = "tagRet" /\ config.hasRefStore) =>
       /\ (retErr' = "" /\ refStore[RefKey(curRef)] # retId) =>
            /\ tagUpdated'
            /\ refStore'[manifestDigest] = retId
            /\ IsTagged(curRef) => refStore'[curRef.tag] = retId
            /\ \A k \in DOMAIN refStore :
                 k \notin {manifestDigest, RefKey(curRef)} => refStore'[k] = refStore[k]
       /\ retErr' = "ReferenceStore.Get error" =>
            (refStore' = refStore /\ refOps' = <<>> /\ ~tagUpdated')]_vars

\* C15: a pullTag has moved a tag from another image to the image pulled
C15_Witness ==
  /\ pc = "tagRet"
  /\ IsTagged(curRef)
  /\ retErr = ""
  /\ tagUpdated
  /\ refStoreT[curRef.tag] \notin {"", retId}
  /\ refStore[curRef.tag] = retId

\* pullTag has pulled, without error, the image that the stores held for
\* the reference when it was called: the pull repeats an earlier one
Repulled ==
  /\ pc = "tagRet"
  /\ retErr = ""
  /\ retId # ""
  /\ retId \in imageStoreT
  /\ refStoreT[RefKey(curRef)] = retId

\* C16 as stated: a pull that repeats an earlier one has not invoked
\* DownloadManager.Download and reports "Image is up to date"
C16_RepullNoDownload ==
  [][Repulled =>
       /\ dlCalls = 0
       /\ ~tagUpdated
       /\ ref.kind # "name" => status' = Append(status, "Image is up to date")]_vars

\* C16, amended: the image ID a puller returns is the config digest the
\* manifest names (for schema1, the ID of the config made from it); a pull
\* that repeats an earlier one, a reference store being configured, reports
\* "Image is up to date"; it has not invoked DownloadManager.Download if the
\* manifest is schema2 or OCI and ImageStore.Get found its config, and has
\* invoked it once more if the manifest is schema1; without a reference
\* store pullTag reports new content
C16_RepullAmended ==
  [][/\ (pc \in {"listRet", "reconcile"} /\ retKind = "image" /\ retErr = "") =>
          retId = IF target = "" THEN "s1" ELSE target
     /\ Repulled =>
          /\ ~tagUpdated
          /\ ref.kind # "name" => status' = Append(status, "Image is up to date")
          /\ getFound => dlCalls = 0
          /\ target = "" => dlCalls = 1
     /\ (pc = "tagRet" /\ retErr = "" /\ ~config.hasRefStore) => tagUpdated]_vars

\* C16: a pull of a tag has repeated an earlier one without a download
C16_Witness ==
  /\ Repulled
  /\ IsTagged(curRef)
  /\ getFound
  /\ dlCalls = 0
  /\ ~tagUpdated

\* C17: when ImageStore.Get has found the target, pullSchema2Layers returns
\* the target as the image ID without error, having started no config fetch,
\* called neither DownloadManager.Download nor ImageStore.Put, and left the
\* image store as it was
C17_ShortCircuit ==
  (pc \in {"listRet", "reconcile"} /\ retKind = "image" /\ getFound) =>
    /\ retErr = ""
    /\ retId = target
    /\ target \in imageStore
    /\ cfgG = "idle"
    /\ dlG = "idle"
    /\ configChan = <<>>
    /\ dlCalls = 0
    /\ dlReturned = 0
    /\ putCalls = 0
    /\ imageStore = imageStoreT

\* C17: pullSchema2Layers, called for a member of a manifest list, has
\* returned an image found in the image store
C17_Witness ==
  /\ pc = "listRet"
  /\ retKind = "image"
  /\ getFound
  /\ retId = "c1"

\* C18: a pullManifestList with no match left returns noMatchesErr and no
\* image ID; and whenever a pullManifestList has returned noMatchesErr, the
\* image store and the reference store are as they were when pullTag was
\* called
C18_NoMatchesNothingCommitted ==
  [][/\ (pc = "ml" /\ Top = 0) =>
          (retKind' = "list" /\ retErr' = "noMatchesErr" /\ retId' = "")
     /\ (retKind' = "list" /\ retErr' = "noMatchesErr") =>
          (imageStore' = imageStoreT' /\ refStore' = refStoreT')]_vars

\* C18: pullTag is about to return the noMatchesErr of a manifest list
\* whose matches were tried, one of them a nested list that failed
C18_Witness ==
  /\ pc = "tagRet"
  /\ retKind = "list"
  /\ retErr = "noMatchesErr"
  /\ mismatch
  /\ imageStore = imageStoreT

\* C19: in the all-tags case pullTag is called for the tags in the order the
\* tag service returned them, each after the one before has returned without
\* error; when a pullTag has returned an error pullRepository's next step is
\* to return that error, pulling no further tag; and a pullRepository that returns no error has
\* pulled every tag
C19_TagsInOrderFirstFailureAborts ==
  [][ref.kind = "name" =>
       /\ pulled' # pulled =>
            /\ pc = "tagsLoop"
            /\ pc' = "pullTag"
            /\ Len(pulled) < Len(tagList)
            /\ pulled' = Append(pulled, WithTag(tagList[Len(pulled) + 1]))
            /\ curRef' = WithTag(tagList[Len(pulled) + 1])
       /\ (pc = "tagRet" /\ pc' # pc /\ retErr # "") =>
            (pc' = "done" /\ pullErr' = retErr /\ pulled' = pulled)
       /\ (pc = "tagRet" /\ pc' = "tagsLoop") => retErr = ""
       /\ (pc' = "done" /\ pullErr' = "") => Len(pulled') = Len(tagList')]_vars

\* C19: the pull of the first of two tags has failed and pullRepository has
\* returned its error without pulling the second
C19_Witness ==
  /\ pc = "done"
  /\ ref.kind = "name"
  /\ tagList = <<"t1", "t2">>
  /\ pulled = <<WithTag("t1")>>
  /\ pullErr \notin {"", "WithTag error"}

\* C20 as stated: a pull that succeeds has written one status line for each
\* tag pulled, and a pull that fails has written none
C20_OneStatusPerTagPull ==
  /\ (pc = "done" /\ pullErr = "" /\ pulled # <<>>) => Len(status) = Len(pulled)
  /\ (pc = "done" /\ pullErr # "") => status = <<>>

\* C20, amended: a pullRepository that succeeds has written exactly one
\* status line, in the all-tags case one for the repository after the last
\* tag: "Downloaded newer image" if some pullTag reported new content, "Image
\* is up to date" otherwise; before it returns, and when it fails, no status
\* line has been written
C20_OneStatusPerPull ==
  /\ Len(status) <= 1
  /\ status # <<>> => (pc = "done" /\ pullErr = "")
  /\ (pc = "done" /\ pullErr = "") =>
       status = << IF layersDownloaded THEN "Downloaded newer image"
                   ELSE "Image is up to date" >>

\* C20: a pull of all tags has pulled two tags and written one status line
C20_Witness ==
  /\ pc = "done"
  /\ pullErr = ""
  /\ Len(pulled) = 2
  /\ Len(status) = 1

\* C21 as stated: the status line written after the pull of a tag or digest
\* reference says "Downloaded newer image" if and only if the pull invoked
\* DownloadManager.Download, and "Image is up to date" otherwise
C21_StatusIffLayersFetched ==
  [][(pc = "tagRet" /\ retErr = "" /\ ref.kind # "name" /\ pc' = "done") =>
       status' = Append(status, IF dlCalls > 0 THEN "Downloaded newer image"
                                ELSE "Image is up to date")]_vars

\* C21, amended: a pullTag that succeeds reports an update if and only if no
\* reference store is configured or the store did not associate the
\* reference with the image ID pulled when pullTag was called, whether
\* layers were downloaded or an image already stored was newly tagged;
\* pullRepository accumulates the reports of its pullTag calls, and the
\* status line it writes says "Downloaded newer image" if and only if one of
\* them reported an update, "Image is up to date" otherwise
C21_StatusIffUpdated ==
  [][/\ (pc = "tagRet" /\ retErr = "" /\ pc' # pc) =>
          /\ tagUpdated <=> (~config.hasRefStore \/ refStoreT[RefKey(curRef)] # retId)
          /\ layersDownloaded' = (layersDownloaded \/ tagUpdated)
     /\ (pc = "tagRet" /\ retErr # "" /\ pc' # pc) => layersDownloaded' = layersDownloaded
     /\ pc # "tagRet" => layersDownloaded' = layersDownloaded
     /\ status' # status =>
          status' = Append(status, IF layersDownloaded' THEN "Downloaded newer image"
                                   ELSE "Image is up to date")]_vars

\* C21: a pull has found the image in the image store, downloaded nothing,
\* newly tagged it, and written "Downloaded newer image"
C21_Witness ==
  /\ pc = "done"
  /\ pullErr = ""
  /\ IsTagged(ref)
  /\ imageStore = imageStore0
  /\ refStore0[ref.tag] = ""
  /\ refStore[ref.tag] \in imageStore0
  /\ status = <<"Downloaded newer image">>

\* C22: when RequireSchema2 is set, pullSchema1 is never entered, whether the
\* schema1 manifest was resolved from the tag or digest or is a member of a
\* manifest list, so that it downloads no layer and puts no image
C22_RequireSchema2Rejects ==
  config.requireSchema2 =>
    /\ pc \notin {"s1", "s1Download"}
    /\ "s1" \notin imageStore

\* pullTag has made the call op with arg
HasCall(op, arg) == \E i \in 1..Len(events) : events[i].op = op /\ events[i].arg = arg

\* validateMediaType has rejected the manifest pullTag resolved
MediaTypeRejected ==
  \E i \in 1..Len(events) : events[i].op = "validateMediaType" /\ events[i].res # ""

\* what holds of validateMediaType in pullTag whatever was written before it:
\* it is called for a schema2 manifest pullTag resolved, accepts the media
\* types of Schema2Types, or of the built-in list when that is empty, and no
\* other; after a rejection pullTag returns invalidManifestClassError with no
\* config fetch, no layer download, no image put and both stores as they were
MediaTypeChecked ==
  /\ \A i \in 1..Len(events) :
       events[i].op = "validateMediaType" =>
         (events[i].res = "" <=>
            events[i].arg \in (IF config.schema2Types # {} THEN config.schema2Types
                               ELSE defaultImageTypes))
  /\ (pulling = "schema2" /\ stack = <<>>) =>
       (validated /\ \E i \in 1..Len(events) :
                       events[i].op = "validateMediaType" /\ events[i].res = "")
  /\ MediaTypeRejected =>
       /\ pc = "tagRet"
       /\ retErr = "invalidManifestClassError"
       /\ ~tagUpdated
       /\ cfgG = "idle"
       /\ dlG = "idle"
       /\ dlCalls = 0
       /\ putCalls = 0
       /\ imageStore = imageStoreT
       /\ refStore = refStoreT

\* C23 as stated: the config media type of a schema2 manifest pullTag
\* resolved must be in the allow-list; a media type outside it makes pullTag
\* fail with invalidManifestClassError before any progress message, blob
\* fetch, layer download or store update
C23_MediaTypeBeforeAnyMessage ==
  /\ MediaTypeChecked
  /\ MediaTypeRejected => \A i \in 1..Len(events) : events[i].op # "progress"

\* C23, amended: the same, except that the rejection precedes the "Pulling
\* from" progress message only: when the manifest was fetched by tag after
\* the fetch by digest found nothing, the WARNING of that fallback has been
\* written, and it is the only progress message
C23_MediaTypeBeforePulling ==
  /\ MediaTypeChecked
  /\ MediaTypeRejected =>
       \A i \in 1..Len(events) :
         events[i].op = "progress" =>
           (events[i].arg = "WARNING" /\ events[1].res = "not found")

\* C23: pullTag has rejected the media type of a manifest fetched by tag
\* after the fallback's WARNING
C23_Witness ==
  /\ pc = "tagRet"
  /\ retErr = "invalidManifestClassError"
  /\ MediaTypeRejected
  /\ HasCall("progress", "WARNING")

\* C27: pullTag warns and fetches by tag only for a reference with a tag
\* whose fetch by digest failed with a not-found error, and then always
\* warns; the WARNING precedes the fetch by tag; after any other error of
\* the fetch by digest, or for a digest reference, pullTag has made no other
\* call and returns that error; an error of the fetch by tag, or of the
\* Manifests call before it, is what pullTag returns
C27_FallbackOnlyTagNotFound ==
  /\ events # <<>> => events[1].op = "manifestStore.Get"
  /\ \A i \in 1..Len(events) :
       (events[i].op \in {"Manifests", "ms.Get"} \/ events[i] = Call("progress", "WARNING", "")) =>
         (IsTagged(curRef) /\ events[1].res = "not found")
  /\ \A i \in 1..Len(events) :
       events[i].op = "ms.Get" =>
         \E j \in 1..(i - 1) : events[j] = Call("progress", "WARNING", "")
  /\ (events # <<>> /\ IsTagged(curRef) /\ events[1].res = "not found") =>
       (Len(events) >= 3 /\ events[2] = Call("progress", "WARNING", ""))
  /\ (events # <<>> /\ events[1].res # ""
        /\ ~(IsTagged(curRef) /\ events[1].res = "not found")) =>
       (Len(events) = 1 /\ pc = "tagRet" /\ retErr = events[1].res)
  /\ \A i \in 1..Len(events) :
       (events[i].op \in {"Manifests", "ms.Get"} /\ events[i].res # "") =>
         (i = Len(events) /\ pc = "tagRet" /\ retErr = events[i].res)

\* C27: pullTag has fallen back to the fetch by tag, which failed, and
\* returns its error
C27_Witness ==
  /\ pc = "tagRet"
  /\ HasCall("progress", "WARNING")
  /\ HasCall("ms.Get", "tag")
  /\ retErr = "get by tag error"

\* C29: while the config or the layers of a schema2 manifest are fetched, or
\* after they were, validateMediaType has accepted its config media type,
\* also when the manifest is a member of a manifest list
C29_ValidatedBeforeFetch ==
  (pulling = "schema2" /\ (cfgG # "idle" \/ dlG # "idle" \/ dlCalls > 0)) => validated

\* C30: with a registry that serves the blob's bytes, whenever Download has
\* started a transfer the verifier held exactly the bytes of the temp file
\* when the transfer started (none, when it started at offset 0), also after
\* the temp file was recreated, after a truncation, and after a partial
\* download larger than the blob
C30_VerifierMatchesFile ==
  (verifierAtStart # "none" /\ ~everCorrupted) => verifierAtStart = "matches"

\* ------------------------------------------------ fixManifestLayers (C24)
FixErrors == {"invalid V1Compatibility", "invalid parent ID in the base layer of the image",
              "ID appears multiple times in manifest", "invalid parent ID"}

\* fixManifestLayers has run on a manifest and returned an error / no error
FixRejected == s1Manifest # NoS1Manifest /\ s1pc = "done" /\ s1Err \in FixErrors
FixAccepted == s1Manifest # NoS1Manifest /\ s1pc # "fix" /\ s1Err \notin FixErrors

\* the manifest as received repeats an ID in two layers that are not neighbours in one run
HasNonAdjacentRepeat ==
  LET imgs == s1Manifest.History IN
  \E i, j \in 1..Len(imgs) :
    /\ i < j
    /\ imgs[i].ID = imgs[j].ID
    /\ \E k \in i..j : imgs[k].ID # imgs[i].ID

BaseHasParent ==
  s1Manifest # NoS1Manifest /\ s1Manifest.History[Len(s1Manifest.History)].Parent # ""

\* some layer that is not a repeat of the layer below it has a parent that is
\* not the ID of that layer
BrokenChain ==
  LET imgs == s1Manifest.History IN
  \E i \in 1..(Len(imgs) - 1) :
    imgs[i].ID # imgs[i + 1].ID /\ imgs[i].Parent # imgs[i + 1].ID

\* what an accepted manifest looks like: blob sums and history of one length
\* and of the same layers, in the order received, one layer of every ID of
\* the manifest, each layer's parent the layer below it
FixedManifestOK ==
  LET fs == verifiedManifest.FSLayers
      hs == verifiedManifest.History IN
  /\ Len(fs) = Len(hs)
  /\ \A i \in 1..Len(hs) : fs[i] = hs[i].of
  /\ \A i, j \in 1..Len(hs) : i < j => (hs[i].of < hs[j].of /\ hs[i].ID # hs[j].ID)
  /\ { hs[i].ID : i \in 1..Len(hs) } = { s1Manifest.History[i].ID : i \in 1..Len(s1Manifest.History) }
  /\ \A i \in 1..(Len(hs) - 1) : hs[i].Parent = hs[i + 1].ID

\* C24 as stated: fixManifestLayers rejects a manifest whose base layer has a
\* parent, that repeats an ID in non-adjacent layers, or whose chain of
\* parents is broken; a manifest it accepts has every run of one ID collapsed
\* to one layer, blob sums and history aligned, and one chain of parents from
\* top to base with no ID twice.
C24_FixManifestLayers ==
  /\ (s1Manifest # NoS1Manifest /\ s1pc # "fix" /\ (BaseHasParent \/ HasNonAdjacentRepeat \/ BrokenChain))
       => FixRejected
  /\ FixAccepted => FixedManifestOK

\* C24 amended: the same, the base layer's parent being rejected on every
\* platform but Windows.
C24_FixManifestLayersOffWindows ==
  /\ (s1Manifest # NoS1Manifest /\ s1pc # "fix"
        /\ ((BaseHasParent /\ goos # "windows") \/ HasNonAdjacentRepeat \/ BrokenChain))
       => FixRejected
  /\ FixAccepted => FixedManifestOK

\* a manifest on Windows whose base layer has a parent is accepted, a run
\* collapsed, two layers left
C24_Witness ==
  /\ FixAccepted
  /\ goos = "windows"
  /\ BaseHasParent
  /\ Len(verifiedManifest.History) < Len(s1Manifest.History)
  /\ Len(verifiedManifest.History) >= 2

\* ------------------------------------- descriptors and history of pullSchema1 (C25)
\* the loop over the layers has run to its end
S1Built == s1Manifest # NoS1Manifest /\ s1pc = "done" /\ s1Err = ""

\* the places among 1..i that are in keep, greatest (bottom-most) first
RECURSIVE BottomUp(_, _)
BottomUp(i, keep) ==
  IF i < 1 THEN <<>>
  ELSE (IF i \in keep THEN <<i>> ELSE <<>>) \o BottomUp(i - 1, keep)

\* C25: a throwaway layer gives a history entry and no download descriptor,
\* every other layer gives both; descriptors and history run from the base
\* layer to the top-most, so there are as many descriptors as layers that are
\* not throwaway and as many history entries as layers left by fixManifestLayers.
C25_DescriptorsAndHistory ==
  S1Built =>
    LET n == Len(verifiedManifest.FSLayers)
        all == BottomUp(n, 1..n)
        real == BottomUp(n, { i \in 1..n : ~throwAway[i] }) IN
    /\ Len(history) = n
    /\ \A k \in 1..n : history[k] = [of |-> verifiedManifest.History[all[k]].of,
                                     throwAway |-> throwAway[all[k]]]
    /\ Len(descriptors) = Cardinality({ i \in 1..n : ~throwAway[i] })
    /\ Len(descriptors) = Len(real)
    /\ \A k \in 1..Len(real) : descriptors[k] = verifiedManifest.FSLayers[real[k]]

\* three layers left, the middle one throwaway: three history entries, two descriptors
C25_Witness ==
  /\ S1Built
  /\ Len(verifiedManifest.FSLayers) = 3
  /\ throwAway = <<FALSE, TRUE, FALSE>>
  /\ Len(history) = 3
  /\ descriptors = <<3, 1>>

\* ---------------------------------------------- the config blob fetch (C26)
RECURSIVE Pow2(_)
Pow2(k) == IF k = 0 THEN 1 ELSE 2 * Pow2(k - 1)

ConfigFetchBounded ==
  /\ Len(fetches) <= defaultMaxSchemaPullAttempts
  /\ \A i \in 1..(Len(fetches) - 1) : fetches[i].err # "" /\ ~fetches[i].doNotRetry
  /\ Len(slept) >= Len(fetches) - 1
  /\ \A i \in 1..Len(slept) : slept[i] = defaultSchemaPullBackoff * Pow2(i - 1)
  /\ cfgRet # "" => cfgRet = cfgDgst
  /\ retryErr = "image config verification failed" => cfgRet = ""

\* C26: one pullSchema2Config calls blobs.Get at most
\* defaultMaxSchemaPullAttempts times, every call but the last having ended
\* in an error that may be retried, with a sleep between two calls that starts
\* at defaultSchemaPullBackoff and doubles; the config it returns has the
\* digest asked for, and once the bytes are being verified or the call has
\* returned there is no further call of blobs.Get.
C26_ConfigFetchRetry ==
  /\ []ConfigFetchBounded
  /\ [][(rpc \in {"verify", "done"}) => (fetches' = fetches)]_vars

\* four errors that may be retried, then bytes that do not verify
C26_Witness ==
  /\ rpc = "done"
  /\ Len(fetches) = defaultMaxSchemaPullAttempts
  /\ slept = <<250, 500, 1000, 2000>>
  /\ retryErr = "image config verification failed"
  /\ cfgRet = ""

\* ------------------------------------------------------ ContainerLogs (C28)
\* what holds of a call of ContainerLogs at every moment
LogsSafe ==
  /\ consumerGone <= 1
  /\ loggerCloses <= 1
  /\ gpc = "exited" =>
       /\ chanClosed
       /\ consumerGone = 1
       /\ loggerCloses = (IF cLogCreated THEN 1 ELSE 0)
  /\ chanClosed => (gpc = "exited" /\ (logSrc # "running" \/ logCtxDone))
  /\ \A i \in 1..Len(received) :
       \/ received[i] = LogMessage(i) /\ i <= produced
       \/ received[i] = ErrMessage /\ i = Len(received) /\ logSrc = "errored"
  /\ lpc = "failed" =>
       /\ gpc = "none"
       /\ ~chanClosed
       /\ messageChan = <<>>
       /\ received = <<>>
       /\ consumerGone = 0

InS2Layers == pc \in {"s2WaitCfg", "s2Drain", "s2WinWait", "s2Join"}

\* a goroutine of pullSchema2Layers that has yet to send finds room in the
\* channel it sends on
SendsHaveRoom ==
  /\ cfgG = "run" => (Len(configChan) < 1 /\ Len(configErrChan) < 1)
  /\ dlG = "run" => Len(layerErrChan) < 1

\* C31: no send of the two goroutines of pullSchema2Layers can block, during
\* the call or after it; once pullSchema2Config has returned and, where the
\* download was started, Download has returned, pullSchema2Layers leaves the
\* select it waits at and returns, and the config goroutine ends.
C31_ReturnsAndLeaksNothing ==
  /\ []SendsHaveRoom
  /\ (pc \in {"s2WaitCfg", "s2Drain", "s2Join"} /\ cfgG # "run" /\ dlG # "run") ~> ~InS2Layers
  /\ (pc = "s2WinWait" /\ cfgG # "run") ~> (pc # "s2WinWait")
  /\ (cfgG = "sentErr") ~> (cfgG # "sentErr")

\* pullSchema2Layers has returned, before it started the download, while
\* pullSchema2Config is still running in its goroutine
C31_Witness ==
  /\ ~InS2Layers
  /\ retKind = "image"
  /\ retErr = "unsupported operating system"
  /\ cfgG = "run"
  /\ dlG = "idle"
  /\ ctxCancelled

\* --------------------------------------------- Put after both operations (C32)
\* the step in which pullSchema2Layers calls ImageStore.Put
PutInvoked ==
  /\ pc = "s2Join"
  /\ pc' # "s2Join"
  /\ s2err' \in {"", "ImageStore.Put error"}

\* the config goroutine has delivered a config whose bytes have the digest
\* asked for, and pullSchema2Layers holds it
VerifiedConfigDelivered ==
  /\ cfgG = "done"
  /\ configJSON # NoConfig
  /\ configJSON.dgst = target

\* Download has returned a rootfs and downloadsDone is closed
DownloadSucceeded ==
  /\ dlG = "done"
  /\ downloadsDone
  /\ ~downloadedRootFS.nil

\* C32 as stated: ImageStore.Put is called only when the config goroutine
\* has delivered a verified config and the download manager's Download has
\* returned without error.
C32_PutAfterConfigAndDownload ==
  [][PutInvoked => (VerifiedConfigDelivered /\ DownloadSucceeded)]_vars

\* C32 amended: the same, the download being required only where a download
\* manager is configured; without one downloadsDone is closed by
\* pullSchema2Layers itself.
C32_PutAfterConfigAndDownloadIfAny ==
  [][PutInvoked =>
       /\ VerifiedConfigDelivered
       /\ downloadsDone
       /\ config.hasDM => DownloadSucceeded]_vars

\* Put has succeeded after both the config and the download had arrived
C32_Witness ==
  /\ putCalls = 1
  /\ retKind = "image"
  /\ retErr = ""
  /\ ~InS2Layers
  /\ config.hasDM
  /\ cfgG = "done"
  /\ dlG = "done"
  /\ configJSON.dgst = target
  /\ target \in imageStore

\* ------------------------------------- one image per manifest list (C33)
\* an image puller called by pullManifestList has returned to it
ImagePullerReturnedToList == pc = "listRet" /\ retKind = "image"

\* pullManifestList takes the result of the image puller it called
ListTakesImageResult == ImagePullerReturnedToList /\ retKind' # "image"

\* the loop of pullManifestList skips a match of unknown type
SkipsUnknown ==
  /\ pc = "ml"
  /\ pc' = "ml"
  /\ Len(stack') = Len(stack)
  /\ stack'[Len(stack)] = Top - 1

\* C33: when the puller of a schema1, schema2 or OCI match returns, the
\* pullManifestList that called it returns what the puller returned, error
\* or not, whatever matches are left; a match of unknown type is skipped with
\* nothing pulled; and one pullTag adds at most one image to the image store.
C33_OneImagePerList ==
  /\ [](Cardinality(imageStore \ imageStoreT) <= 1)
  /\ [][ListTakesImageResult =>
          /\ stack' = Pop
          /\ pc' # "ml"
          /\ retKind' = "list"
          /\ retId' = retId
          /\ retErr' = retErr]_vars
  /\ [][SkipsUnknown => (imageStore' = imageStore /\ dlCalls' = 0 /\ retErr' = retErr)]_vars

\* the puller of a match has failed while the list has a match left
C33_Witness ==
  /\ ImagePullerReturnedToList
  /\ retErr = "layer download error"
  /\ Len(stack) = 1
  /\ Top = 1

\* --------------------------------------- all tags: no fallback for one tag (C34)
\* pull was asked for all tags and has returned the error of one tag's pullTag
TagPullFailed ==
  /\ pc = "done"
  /\ ref.kind = "name"
  /\ pulled # <<>>
  /\ pullErr \notin {"", "newRepository error", "Manifests error", "Tags.All error",
                     "WithTag error"}

\* C34: when all tags are pulled and the pull of one tag fails, the error
\* pull returns is not a fallbackError.
C34_NoFallbackForOneTag == TagPullFailed => ~pullFallback

\* ------------------------------------------------ retry and the context (C35)
\* retry leaves the select at which the context's case became ready first
LeavesSelectOnCtx == rpc = "sleep" /\ woken = "ctx" /\ rpc' # "sleep"

\* C35: when the context is done while retry waits at its select with the
\* timer yet to fire, retry returns the context's error without another call
\* of f; having returned it makes no call; and after the last attempt the
\* loop allows there is no wait.
C35_CancelEndsRetry ==
  /\ [][LeavesSelectOnCtx =>
          /\ rpc' = "done"
          /\ retryErr' = "context canceled"
          /\ fetches' = fetches
          /\ slept' = slept]_vars
  /\ [][(rpc = "done") => (rpc' = "done" /\ fetches' = fetches)]_vars
  /\ [](rpc = "sleep" => Len(fetches) < defaultMaxSchemaPullAttempts)
  /\ [](Len(slept) < defaultMaxSchemaPullAttempts)

\* the context was cancelled during the second wait
C35_Witness ==
  /\ rpc = "done"
  /\ retryErr = "context canceled"
  /\ retryCtxDone
  /\ Len(fetches) = 2
  /\ slept = <<250>>
  /\ cfgRet = ""

\* ------------------------------------------- Prepare and Remove (C36)
\* the step is a call of the backend's Remove
BackendRemoveCalled == backendRemoves' = backendRemoves + 1

\* C36: the backend's Remove is called only when no controller whose Prepare
\* returned nil has yet to call Remove, and no controller's Remove has
\* released more often than its Prepare has acquired.
C36_RemoveOnlyWhenUnused ==
  /\ [][BackendRemoveCalled => \A k \in Controllers : ~prepared[k]]_vars
  /\ [](\A k \in Controllers : releases[k] <= acquires[k])

\* ------------------------------------------- Controller.Wait (C37)
\* the step is a return of Wait
WaitReturnStep == wpc # "done" /\ wpc' = "done"

\* the step is a receive of an event by Wait
WaitReceives == wpc = "select" /\ lastEvent' # lastEvent

\* what the claim lets Wait return, and where
WaitResultAsStated ==
  \/ wpc = "compare" /\ subscribed /\ (~specDisabled) # wEnabled
       /\ wResult' = "mismatched plugin state"
  \/ wpc = "select" /\ wCtxDone /\ wResult' = "context canceled"
  \/ wpc = "select" /\ wEvents # <<>> /\ Head(wEvents) = "EventRemove"
       /\ wResult' = "plugin removed"
  \/ wpc = "select" /\ wEvents # <<>> /\ Head(wEvents) = "EventEnable" /\ specDisabled
       /\ wResult' = "plugin enabled"
  \/ wpc = "select" /\ wEvents # <<>> /\ Head(wEvents) = "EventDisable" /\ ~specDisabled
       /\ wResult' = "plugin disabled"

MismatchReturns ==
  (wpc = "compare" /\ (~specDisabled) # wEnabled) => wResult' = "mismatched plugin state"

AgreeingEventGoesOn ==
  (wpc = "select" /\ lastEvent' # lastEvent
     /\ \/ Head(wEvents) = "EventEnable" /\ ~specDisabled
        \/ Head(wEvents) = "EventDisable" /\ specDisabled)
  => wpc' = "select"

\* C37 as stated: Wait compares only once subscribed, returns "mismatched
\* plugin state" if the states differ then, and returns otherwise only on
\* cancellation or on an event contradicting the desired state; an event
\* agreeing with it never ends Wait.
C37_WaitReturnsAsStated ==
  /\ [](wpc = "compare" => subscribed)
  /\ [][(wpc = "compare" /\ wpc' # "compare") => MismatchReturns]_vars
  /\ [][WaitReturnStep => WaitResultAsStated]_vars
  /\ [][AgreeingEventGoesOn]_vars

\* C37 amended: the same of a Wait whose lookup of the plugin succeeded; a
\* Wait whose lookup fails returns that error without subscribing.
C37_WaitReturnsAfterLookup ==
  /\ [](wpc = "compare" => subscribed)
  /\ [][(wpc = "compare" /\ wpc' # "compare") => MismatchReturns]_vars
  /\ [][(WaitReturnStep /\ wpc # "get") => WaitResultAsStated]_vars
  /\ [][(WaitReturnStep /\ wpc = "get") => (wRemoved /\ ~subscribed)]_vars
  /\ [][AgreeingEventGoesOn]_vars

\* Wait, subscribed and with matching states, has received an enable event
\* with the spec enabled and waits on
C37_Witness ==
  /\ wpc = "select"
  /\ lastEvent = "EventEnable"
  /\ ~specDisabled
  /\ wChanges >= 1

\* ------------------------------------------- Manager.upgradePlugin (C38)
UpgradeReturnedErr == upc = "done" /\ upRetErr # ""

PluginAsBefore ==
  /\ origDir = "old"
  /\ pluginConfig = OldDigest
  /\ pluginBlobsums = OldBlobsums
  /\ pluginManifest = OldDigest
  /\ pluginObjConfig = OldObjConfig

\* C38: after upgradePlugin returned an error the rootfs directory holds the
\* original rootfs again and p.Config, p.Blobsums, p.Manifest and
\* p.PluginObj.Config are what they were before the call.
C38_ErrorLeavesPluginAsBefore == UpgradeReturnedErr => PluginAsBefore

\* ------------------------------------------- SCTPProxy (C39)
\* no goroutine of clientLoop c is left
GoroutinesGone(c) ==
  /\ \A b \in Brokers : broker[c][b] \in {"none", "done"}
  /\ waiter[c] \in {"none", "done"}

ConnsClosed(c) == clientConn[c] = "closed" /\ backendConn[c] \in {"none", "closed"}

ClientLoopActive(c) == clPc[c] \notin {"none", "returned"}

\* C39: a clientLoop that has returned has both copy goroutines terminated
\* and both connections closed; and once Run has exited every active
\* clientLoop eventually returns, connections closed and no goroutine left.
C39_ClientLoopEnds ==
  /\ [](\A c \in Clients : clPc[c] = "returned" => (GoroutinesGone(c) /\ ConnsClosed(c)))
  /\ \A c \in Clients :
       (runPc = "exited" /\ quitClosed /\ ClientLoopActive(c))
         ~> (clPc[c] = "returned" /\ GoroutinesGone(c) /\ ConnsClosed(c))

\* a clientLoop whose select took the quit case has returned, both
\* connections closed and both copy goroutines done
C39_Witness ==
  /\ runPc = "exited"
  /\ \E c \in Clients :
       /\ clPc[c] = "returned"
       /\ tookQuit[c]
       /\ backendConn[c] = "closed"
       /\ \A b \in Brokers : broker[c][b] = "done"

====
